---------------------------- MODULE Spec2Model ----------------------------
(***************************************************************************)
(* Verification model of the amelia orchestration engine: workflow status  *)
(* state machine and store, orchestrator start/cancel enforcement, event   *)
(* bus and socket fan-out, and the blocker protocol with cascade skips.    *)
(***************************************************************************)
EXTENDS Integers, Sequences, FiniteSets, TLC

(***************************************************************************)
(* Bounds                                                                  *)
(***************************************************************************)
MaxWorkflows == 3
NumPaths == 2
MaxConcurrent == 2

MaxEmits == 2
NumConns == 2
NumHandlers == 2
NumEventWorkflows == 2
NumSteps == 3
MaxBlockers == 2
max_review_iterations == 2
NumSnapshots == 2
MaxCommands == 2
MaxCheckpoints == 1

WorkflowIds == 1..MaxWorkflows
Paths == 1..NumPaths
\* Two concurrent callers of StartWorkflow.
Requests == {1, 2}
\* Workflows that events are emitted for, in-process handlers, sockets.
EventWorkflows == 1..NumEventWorkflows
Handlers == 1..NumHandlers
Conns == 1..NumConns

(***************************************************************************)
(* Workflow status state machine                                           *)
(***************************************************************************)
WorkflowStatus ==
    {"pending", "in_progress", "blocked", "completed", "failed",
     "cancelled", "aborted", "planning"}

TerminalStatuses == {"completed", "failed", "cancelled", "aborted"}

VALID_TRANSITIONS ==
    [s \in WorkflowStatus |->
        CASE s = "pending"     -> {"in_progress", "cancelled"}
          [] s = "in_progress" -> {"blocked", "completed", "failed", "cancelled"}
          [] s = "blocked"     -> {"in_progress", "failed", "planning", "cancelled"}
          [] s = "failed"      -> {"in_progress"}
          [] s = "planning"    -> {"in_progress"}
          [] OTHER             -> {}]

\* A mutation of validate_transition: a same-state transition passes.
validate_transition_SameStateOk(current, target) ==
    [raised  |-> target \notin VALID_TRANSITIONS[current] /\ target # current,
     current |-> current,
     target  |-> target]

\* Outcome of validate_transition: raised = FALSE is the silent return,
\* raised = TRUE is InvalidStateTransitionError carrying current and target.
validate_transition(current, target) ==
    [raised  |-> target \notin VALID_TRANSITIONS[current],
     current |-> current,
     target  |-> target]

NoCall == [args |-> <<"none", "none">>,
           result |-> [raised |-> FALSE, current |-> "none", target |-> "none"]]

VARIABLES
    wfStatus,       \* workflow id -> stored status, "none" when no record
    wfPath,         \* workflow id -> worktree path, 0 when no record
    lastCall,       \* outcome of the latest validate_transition call
    startLock,      \* holder of the service-wide start mutex, 0 when free
    reqPc,          \* position of each StartWorkflow request
    reqPath,        \* worktree path of the request
    reqResult,      \* "none", "created", or the name of the typed error
    reqWf,          \* id of the record the request created, 0 if none
    activeTasks,    \* workflows with a launched run task
    subscribers,    \* EventBus._subscribers, in registration order
    connection_manager,   \* whether EventBus._connection_manager is set
    trace_retention_days, \* EventBus._trace_retention_days
    sequence_counter,     \* EventBus._sequence_counter, per workflow
    svcSeq,         \* the service's per-workflow event counter
    eventLog,       \* per workflow, the sequence numbers of the events built
    emitPc,         \* position of the emit in progress, "idle" when none
    emitIdx,        \* index of the subscriber the emit is at
    emitEvent,      \* workflow of the event being emitted, 0 when none
    emitStream,     \* TRUE while emit runs inside emit_stream
    calls,          \* handlers invoked so far by the emit in progress
    handlerWorked,  \* the running handler has taken its time
    propagated,     \* an exception has escaped an emit
    loggedErrors,   \* subscribers whose exception emit has logged, this emit
    emitsDone,      \* number of emit and emit_stream calls so far
    tasks,          \* broadcast tasks in creation order
    broadcast_tasks,      \* EventBus._broadcast_tasks (indices into tasks)
    connections,    \* keys of ConnectionManager._connections, insertion order
    subs,           \* ConnectionManager._connections[ws]
    cmLock,         \* task holding ConnectionManager._lock, 0 when free
    lockWaiters,    \* tasks waiting for the lock, first come first served
    usedWs,         \* sockets that have connected at some time
    failedWs,       \* sockets on which a send has failed
    depends_on,     \* execution_plan: step id -> ids of the steps it depends on
    batch_number,   \* execution_plan: step id -> number of its batch
    skipped_step_ids,
    current_blocker,        \* step id of the blocker report, 0 for None
    blocker_resolution,     \* "none" for None
    current_batch_index,    \* 0-based
    developer_status,
    workflow_status,
    plan_len,       \* execution_plan: number of steps (they are 1..plan_len)
    risk_summary,   \* execution_plan: batch number -> risk_summary of the batch
    trust_level,              \* profile.trust_level
    batch_checkpoint_enabled, \* profile.batch_checkpoint_enabled
    git_snapshot_before_batch,   \* 0 for None
    revert_calls,   \* snapshots revert_to_git_snapshot was called with
    batch_results,  \* ExecutionState.batch_results
    batch_approvals,    \* ExecutionState.batch_approvals
    run_steps,      \* steps the latest developer run pre-validated
    blockers,       \* number of blockers raised so far
    review_iteration,
    node,            \* the graph node to run next, "END" when the run is over
    step,           \* the PlanStep given to _execute_step_with_fallbacks
    step_result,     \* the StepResult it returned, NoResult before the call
    failure_reason, \* workflow id -> failure_reason of the record, "none" for None
    service_events, \* events the service emitted at startup recovery, in order
    start_response, \* outcome of the latest StartPending call
    batch_pc,       \* position of the StartBatch call: "idle", "running", "done"
    batch_ids,      \* ids the StartBatch call has still to start
    batch_started,  \* StartBatch response: started
    batch_errors,   \* StartBatch response: ids with an error
    in_flight,      \* workflows whose run task is inside a node
    checkpoints,    \* workflow id -> number of state deltas merged so far
    launches,        \* workflow id -> number of run tasks launched for it
    stream_call,    \* the latest emit_stream call: event type and config flag
    cleanup_pc,     \* EventBus.cleanup: "idle", "waiting", "resuming", "returned"
    cleanup_gathered,   \* the tasks cleanup handed to asyncio.gather
    cleanup_behind,     \* runnable tasks queued ahead of cleanup's wake-up
    send_log,           \* per socket, the broadcasts sent to it, in send order
    subscribers_at_start,   \* EventBus._subscribers when the latest emit began
    plan,           \* the ExecutionPlan given to validate_and_split_batches
    validated,      \* what it returned: the validated plan and the warnings
    dag_tasks,      \* TaskDAG input: task id -> its dependencies, in list order
    dag_result,     \* "none", "accepted", "not_found" or "cyclic"
    review_node,    \* review graph: the node to run next, "END" when over
    review_pass,    \* state.review_pass
    max_review_passes, \* state.max_review_passes
    auto_approve,   \* state.auto_approve
    items_to_implement, \* state.evaluation_result has items to implement
    state_human_approved, \* state.human_approved: "none", "yes" or "no"
    review_cycles,  \* times the reviewer node has been entered
    consumed,       \* an approval node has run on the injected decision
    unsubscribed,   \* per socket, the workflows it has unsubscribed from
    task_call,      \* per broadcast task, the number of the emit call behind it
    started_at,     \* per stored workflow, its started_at (NotStarted: none)
    page_limit,     \* the limit of the paging client
    page_cursor,    \* the cursor the client passes next (NoCursor: none)
    page_response,  \* the last WorkflowListResponse (NoPage: none yet)
    page_seen       \* the workflow ids of the pages read so far, in order

storeVars == <<wfStatus, wfPath, lastCall>>
reqVars == <<startLock, reqPc, reqPath, reqResult, reqWf,
             activeTasks>>
busVars == <<subscribers, connection_manager, trace_retention_days,
             sequence_counter, svcSeq, eventLog, emitPc, emitIdx, emitEvent,
             emitStream, calls, handlerWorked, propagated, loggedErrors,
             emitsDone, tasks, broadcast_tasks>>
cmVars == <<connections, subs, cmLock, lockWaiters, usedWs, failedWs>>
devVars == <<depends_on, batch_number, skipped_step_ids, current_blocker,
             blocker_resolution, current_batch_index, developer_status,
             workflow_status, plan_len, risk_summary, trust_level,
             batch_checkpoint_enabled, git_snapshot_before_batch,
             revert_calls, batch_results, batch_approvals, run_steps,
             blockers, review_iteration, node>>
orchVars == <<storeVars, reqVars>>
stepVars == <<step, step_result>>
svcVars == <<failure_reason, service_events, start_response, batch_pc,
             batch_ids, batch_started, batch_errors, in_flight, checkpoints,
             launches>>
shutVars == <<stream_call, cleanup_pc, cleanup_gathered, cleanup_behind,
              send_log, subscribers_at_start>>
archVars == <<plan, validated>>
dagVars == <<dag_tasks, dag_result>>
reviewVars == <<review_node, review_pass, max_review_passes, auto_approve, items_to_implement,
                state_human_approved, review_cycles, consumed>>
subVars == <<unsubscribed>>
callVars == <<task_call>>
pageVars == <<started_at, page_limit, page_cursor, page_response, page_seen>>
lateVars == <<dagVars, reviewVars, subVars, callVars, pageVars>>
restVars == <<stepVars, svcVars, shutVars, archVars, lateVars>>
vars == <<storeVars, reqVars, busVars, cmVars, devVars, restVars>>

(***************************************************************************)
(* Workflow store                                                          *)
(***************************************************************************)
IsActive(s) == s \in WorkflowStatus \ TerminalStatuses

ActiveIds == {w \in WorkflowIds : IsActive(wfStatus[w])}

CountActive == Cardinality(ActiveIds)

GetByWorktree(p) == {w \in ActiveIds : wfPath[w] = p}

FreeIds == {w \in WorkflowIds : wfStatus[w] = "none"}

\* Create(workflow): insert a record under a fresh id.
RepoCreate(w, s, p) ==
    /\ wfStatus[w] = "none"
    /\ w = CHOOSE x \in FreeIds : \A y \in FreeIds : x <= y
    /\ wfStatus' = [wfStatus EXCEPT ![w] = s]
    /\ wfPath' = [wfPath EXCEPT ![w] = p]

\* SetStatus(id, status): validate the transition, then persist.
SetStatusEffect(w, target) ==
    wfStatus' = IF validate_transition(wfStatus[w], target).raised
                THEN wfStatus
                ELSE [wfStatus EXCEPT ![w] = target]

StoreCreate(w, s) ==
    /\ RepoCreate(w, s, 1)
    /\ UNCHANGED <<lastCall, reqVars>>

\* A caller of the store sets a status and observes the outcome.
StoreSetStatus(w, target) ==
    /\ wfStatus[w] # "none"
    /\ SetStatusEffect(w, target)
    /\ lastCall' = [args |-> <<wfStatus[w], target>>,
                    result |-> validate_transition(wfStatus[w], target)]
    /\ UNCHANGED <<wfPath, reqVars>>

InitStore ==
    /\ wfStatus = [w \in WorkflowIds |-> "none"]
    /\ wfPath = [w \in WorkflowIds |-> 0]
    /\ lastCall = NoCall

InitReq ==
    /\ startLock = 0
    /\ reqPc = [r \in Requests |-> "waiting"]
    /\ reqPath = [r \in Requests |-> 0]
    /\ reqResult = [r \in Requests |-> "none"]
    /\ reqWf = [r \in Requests |-> 0]
    /\ activeTasks = {}

(***************************************************************************)
(* Orchestrator service: start enforcement, launch, cancel, run task       *)
(***************************************************************************)
\* A mutation of AtLimit: the cap is compared with > instead of >=.
AtLimit_OffByOne(count) == count > MaxConcurrent

\* Step 1 of the enforcement: the cap is reached.
AtLimit(count) == count >= MaxConcurrent

\* A mutation of WorktreeOccupied: only running workflows hold a worktree.
WorktreeOccupied_RunningOnly(p) ==
    \E w \in GetByWorktree(p) : wfStatus[w] = "in_progress"

\* Step 2 of the enforcement: another active workflow holds the worktree.
WorktreeOccupied(p) == GetByWorktree(p) # {}

\* StartWorkflow(issue_id, worktree_path, profile_id, start): the call takes
\* the service-wide mutex.
ReqAcquire(r) ==
    /\ reqPc[r] = "waiting"
    /\ startLock = 0
    /\ FreeIds # {}
    /\ startLock' = r
    /\ reqPc' = [reqPc EXCEPT ![r] = "locked"]
    /\ UNCHANGED <<storeVars, reqPath, reqResult, reqWf, activeTasks>>

\* Count active workflows; at the cap reject with ConcurrencyLimitError.
ReqCount(r) ==
    /\ reqPc[r] = "locked"
    /\ IF AtLimit(CountActive)
       THEN /\ reqResult' = [reqResult EXCEPT ![r] = "ConcurrencyLimitError"]
            /\ reqPc' = [reqPc EXCEPT ![r] = "done"]
            /\ startLock' = 0
       ELSE /\ reqPc' = [reqPc EXCEPT ![r] = "counted"]
            /\ UNCHANGED <<reqResult, startLock>>
    /\ UNCHANGED <<storeVars, reqPath, reqWf, activeTasks>>

\* Check the worktree p of the call; occupied rejects with
\* WorkflowConflictError.
ReqCheckWorktree(r, p) ==
    /\ reqPc[r] = "counted"
    /\ reqPath' = [reqPath EXCEPT ![r] = p]
    /\ IF WorktreeOccupied(p)
       THEN /\ reqResult' = [reqResult EXCEPT ![r] = "WorkflowConflictError"]
            /\ reqPc' = [reqPc EXCEPT ![r] = "done"]
            /\ startLock' = 0
       ELSE /\ reqPc' = [reqPc EXCEPT ![r] = "checked"]
            /\ UNCHANGED <<reqResult, startLock>>
    /\ UNCHANGED <<storeVars, reqWf, activeTasks>>

\* Persist the record in pending and release the mutex before launching;
\* st is the start flag of the call.
ReqCreate(r, st) ==
    /\ reqPc[r] = "checked"
    /\ \E w \in WorkflowIds :
         /\ RepoCreate(w, "pending", reqPath[r])
         /\ reqWf' = [reqWf EXCEPT ![r] = w]
    /\ reqResult' = [reqResult EXCEPT ![r] = "created"]
    /\ reqPc' = [reqPc EXCEPT ![r] = IF st THEN "created" ELSE "done"]
    /\ startLock' = 0
    /\ UNCHANGED <<lastCall, reqPath, activeTasks>>

\* start = true: transition to in_progress and launch the run task.
ReqLaunch(r) ==
    /\ reqPc[r] = "created"
    /\ SetStatusEffect(reqWf[r], "in_progress")
    /\ activeTasks' = IF validate_transition(wfStatus[reqWf[r]], "in_progress").raised
                      THEN activeTasks
                      ELSE activeTasks \cup {reqWf[r]}
    /\ reqPc' = [reqPc EXCEPT ![r] = "done"]
    /\ UNCHANGED <<wfPath, lastCall, startLock, reqPath, reqResult, reqWf>>

\* The call has returned; the caller may call again.
ReqReturn(r) ==
    /\ reqPc[r] = "done"
    /\ reqPc' = [reqPc EXCEPT ![r] = "waiting"]
    /\ reqPath' = [reqPath EXCEPT ![r] = 0]
    /\ reqResult' = [reqResult EXCEPT ![r] = "none"]
    /\ reqWf' = [reqWf EXCEPT ![r] = 0]
    /\ UNCHANGED <<storeVars, startLock, activeTasks>>

\* StartPending(workflow_id): requires pending; transitions and launches.
StartPending(w) ==
    /\ wfStatus[w] = "pending"
    /\ \A r \in Requests : reqPc[r] = "created" => reqWf[r] # w
    /\ SetStatusEffect(w, "in_progress")
    /\ activeTasks' = activeTasks \cup {w}
    /\ UNCHANGED <<wfPath, lastCall, startLock, reqPc, reqPath, reqResult,
                   reqWf>>

\* A mutation of TasksAfterCancel: the run task is left running.
TasksAfterCancel_NotCancelled(w) == activeTasks

\* CancelWorkflow: the run task of the workflow is cancelled.
TasksAfterCancel(w) == activeTasks \ {w}

\* CancelWorkflow(workflow_id): if non-terminal, transition to cancelled and
\* cancel the run task.
CancelWorkflow(w) ==
    /\ IsActive(wfStatus[w])
    /\ SetStatusEffect(w, "cancelled")
    /\ activeTasks' = TasksAfterCancel(w)
    /\ UNCHANGED <<wfPath, lastCall, startLock, reqPc, reqPath, reqResult,
                   reqWf>>

\* The run task reaches an interrupt, or ends: the service sets the status.
TaskOutcome(w, target) ==
    /\ w \in activeTasks
    /\ wfStatus[w] = "in_progress"
    /\ SetStatusEffect(w, target)
    /\ activeTasks' = IF target = "blocked" THEN activeTasks
                      ELSE activeTasks \ {w}
    /\ UNCHANGED <<wfPath, lastCall, startLock, reqPc, reqPath, reqResult,
                   reqWf>>

\* ApproveAtInterrupt(workflow_id): resume a blocked workflow.
ApproveAtInterrupt(w) ==
    /\ w \in activeTasks
    /\ wfStatus[w] = "blocked"
    /\ SetStatusEffect(w, "in_progress")
    /\ UNCHANGED <<wfPath, lastCall, reqVars>>

(***************************************************************************)
(* Orchestrator service: startup recovery, queue, run task and cancel      *)
(***************************************************************************)
RestartReason == "Server restarted while workflow was running"

NoResponse == [workflow_id |-> 0, status_code |-> 0]

InitSvc ==
    /\ failure_reason = [w \in WorkflowIds |-> "none"]
    /\ service_events = <<>>
    /\ start_response = NoResponse
    /\ batch_pc = "idle"
    /\ batch_ids = <<>>
    /\ batch_started = {}
    /\ batch_errors = {}
    /\ in_flight = {}
    /\ checkpoints = [w \in WorkflowIds |-> 0]
    /\ launches = [w \in WorkflowIds |-> 0]

\* find_by_status(statuses): the records found, in id order.
RECURSIVE SeqOfSet(_)
SeqOfSet(S) ==
    IF S = {} THEN <<>>
    ELSE LET x == CHOOSE y \in S : \A z \in S : y <= z
         IN <<x>> \o SeqOfSet(S \ {x})

FindByStatus(statuses) ==
    SeqOfSet({w \in WorkflowIds : wfStatus[w] \in statuses})

\* A mutation of RecoveredStatus: blocked workflows are failed as well.
RecoveredStatus_BlockedFails(status) ==
    IF status \in {"in_progress", "blocked"} THEN "failed" ELSE status

\* recover_interrupted_workflows: the status a record has afterwards.
RecoveredStatus(status) ==
    IF status = "in_progress" THEN "failed" ELSE status

\* recover_interrupted_workflows: the event emitted for a record, if any.
RecoveryEvents(w, status) ==
    IF status = "in_progress"
    THEN <<[workflow_id |-> w, event_type |-> "WORKFLOW_FAILED",
            recoverable |-> TRUE]>>
    ELSE IF status = "blocked"
    THEN <<[workflow_id |-> w, event_type |-> "APPROVAL_REQUIRED",
            recoverable |-> FALSE]>>
    ELSE <<>>

RECURSIVE EventsFor(_)
EventsFor(ids) ==
    IF ids = <<>> THEN <<>>
    ELSE RecoveryEvents(Head(ids), wfStatus[Head(ids)]) \o EventsFor(Tail(ids))

\* recover_interrupted_workflows(), called once when the service starts:
\* first the in_progress records, then the blocked ones.
RecoverInterruptedWorkflows ==
    /\ service_events = <<>>
    /\ wfStatus' = [w \in WorkflowIds |->
                      IF wfStatus[w] = "none" THEN "none"
                      ELSE RecoveredStatus(wfStatus[w])]
    /\ failure_reason' = [w \in WorkflowIds |->
                            IF wfStatus[w] # "none"
                                 /\ RecoveredStatus(wfStatus[w]) # wfStatus[w]
                            THEN RestartReason
                            ELSE failure_reason[w]]
    /\ service_events' = EventsFor(FindByStatus({"in_progress"}))
                           \o EventsFor(FindByStatus({"blocked"}))
    /\ UNCHANGED <<launches, wfPath, lastCall, reqVars, start_response, batch_pc,
                   batch_ids, batch_started, batch_errors, in_flight,
                   checkpoints>>

\* A mutation of Startable: a running workflow can be started again.
Startable_AlsoRunning(w) == wfStatus[w] \in {"pending", "in_progress"}

\* start_pending_workflow: only a pending record is started.
Startable(w) == wfStatus[w] = "pending"

\* What starting a record does to the store and the tasks (also used by
\* StartBatch): transition to in_progress and launch the run task.
StartEffect(w) ==
    IF Startable(w)
    THEN /\ wfStatus' = [wfStatus EXCEPT ![w] = "in_progress"]
         /\ activeTasks' = activeTasks \cup {w}
         /\ launches' = [launches EXCEPT ![w] = @ + 1]
    ELSE UNCHANGED <<wfStatus, activeTasks, launches>>

\* POST /workflows/{id}/start: StartPending with its typed errors.
StartPendingRequest(w) ==
    /\ StartEffect(w)
    /\ start_response' = [workflow_id |-> w,
                          status_code |-> IF Startable(w) THEN 200
                                          ELSE IF wfStatus[w] = "none" THEN 404
                                          ELSE 409]
    /\ UNCHANGED <<wfPath, lastCall, startLock, reqPc, reqPath, reqResult,
                   reqWf, failure_reason, service_events, batch_pc, batch_ids,
                   batch_started, batch_errors, in_flight, checkpoints>>

\* StartBatch(workflow_ids): the ids given, or with no ids (all = TRUE) every
\* pending record.
StartBatchBegin(ids, all) ==
    /\ batch_pc = "idle"
    /\ batch_ids' = IF all THEN FindByStatus({"pending"}) ELSE SeqOfSet(ids)
    /\ batch_pc' = "running"
    /\ batch_started' = {}
    /\ batch_errors' = {}
    /\ UNCHANGED <<launches, storeVars, reqVars, failure_reason, service_events,
                   start_response, in_flight, checkpoints>>

\* StartBatch, one id: start it; a failure is reported under errors.
StartBatchStep ==
    /\ batch_pc = "running"
    /\ batch_ids # <<>>
    /\ StartEffect(Head(batch_ids))
    /\ IF Startable(Head(batch_ids))
       THEN /\ batch_started' = batch_started \cup {Head(batch_ids)}
            /\ UNCHANGED batch_errors
       ELSE /\ batch_errors' = batch_errors \cup {Head(batch_ids)}
            /\ UNCHANGED batch_started
    /\ batch_ids' = Tail(batch_ids)
    /\ UNCHANGED <<wfPath, lastCall, startLock, reqPc, reqPath, reqResult,
                   reqWf, failure_reason, service_events, start_response,
                   batch_pc, in_flight, checkpoints>>

\* StartBatch returns {started, errors}.
StartBatchReturn ==
    /\ batch_pc = "running"
    /\ batch_ids = <<>>
    /\ batch_pc' = "done"
    /\ UNCHANGED <<launches, storeVars, reqVars, failure_reason, service_events,
                   start_response, batch_ids, batch_started, batch_errors,
                   in_flight, checkpoints>>

\* The run task of a running workflow enters a graph node.
NodeBegin(w) ==
    /\ w \in activeTasks
    /\ wfStatus[w] = "in_progress"
    /\ w \notin in_flight
    /\ checkpoints[w] < MaxCheckpoints
    /\ in_flight' = in_flight \cup {w}
    /\ UNCHANGED <<launches, storeVars, reqVars, failure_reason, service_events,
                   start_response, batch_pc, batch_ids, batch_started,
                   batch_errors, checkpoints>>

\* The node returns: its state delta is merged and checkpointed.
NodeEnd(w) ==
    /\ w \in activeTasks
    /\ w \in in_flight
    /\ in_flight' = in_flight \ {w}
    /\ checkpoints' = [checkpoints EXCEPT ![w] = @ + 1]
    /\ UNCHANGED <<launches, storeVars, reqVars, failure_reason, service_events,
                   start_response, batch_pc, batch_ids, batch_started,
                   batch_errors>>

\* CancelWorkflow on a workflow whose task may be inside a node: the node is
\* cancelled with the task and returns nothing.
CancelRequest(w) ==
    /\ CancelWorkflow(w)
    /\ in_flight' = in_flight \cap TasksAfterCancel(w)
    /\ UNCHANGED <<launches, failure_reason, service_events, start_response, batch_pc,
                   batch_ids, batch_started, batch_errors, checkpoints>>

\* The run task, between nodes, reaches an interrupt or its end.
RunTaskOutcome(w, target) ==
    /\ w \notin in_flight
    /\ TaskOutcome(w, target)
    /\ UNCHANGED svcVars

(***************************************************************************)
(* Event bus                                                               *)
(***************************************************************************)
InitBus ==
    /\ subscribers = <<>>
    /\ trace_retention_days = 7
    /\ sequence_counter = [w \in EventWorkflows |-> 0]
    /\ svcSeq = [w \in EventWorkflows |-> 0]
    /\ eventLog = [w \in EventWorkflows |-> <<>>]
    /\ emitPc = "idle"
    /\ emitIdx = 0
    /\ emitEvent = 0
    /\ emitStream = FALSE
    /\ calls = <<>>
    /\ handlerWorked = FALSE
    /\ propagated = FALSE
    /\ loggedErrors = <<>>
    /\ emitsDone = 0
    /\ tasks = <<>>
    /\ broadcast_tasks = {}

InitCm ==
    /\ connections = <<>>
    /\ subs = [c \in Conns |-> {}]
    /\ cmLock = 0
    /\ lockWaiters = <<>>
    /\ usedWs = {}
    /\ failedWs = {}

RemoveFirst(seq, x) ==
    IF \E i \in 1..Len(seq) : seq[i] = x
    THEN LET k == CHOOSE i \in 1..Len(seq) :
                    seq[i] = x /\ \A j \in 1..(i - 1) : seq[j] # x
         IN SubSeq(seq, 1, k - 1) \o SubSeq(seq, k + 1, Len(seq))
    ELSE seq

InSeq(seq, x) == \E i \in 1..Len(seq) : seq[i] = x

\* subscribe(callback): append to the subscriber list. Callers register a
\* callback once; subscribe and unsubscribe are called between emits.
Subscribe(h) ==
    /\ emitPc = "idle"
    /\ ~InSeq(subscribers, h)
    /\ subscribers' = Append(subscribers, h)
    /\ UNCHANGED <<connection_manager, trace_retention_days, sequence_counter,
                   svcSeq, eventLog, emitPc, emitIdx, emitEvent, emitStream,
                   calls, handlerWorked, propagated, loggedErrors, emitsDone,
                   tasks, broadcast_tasks, cmVars>>

\* unsubscribe(callback): remove it, a missing callback is ignored.
Unsubscribe(h) ==
    /\ emitPc = "idle"
    /\ subscribers' = RemoveFirst(subscribers, h)
    /\ UNCHANGED <<connection_manager, trace_retention_days, sequence_counter,
                   svcSeq, eventLog, emitPc, emitIdx, emitEvent, emitStream,
                   calls, handlerWorked, propagated, loggedErrors, emitsDone,
                   tasks, broadcast_tasks, cmVars>>

\* configure(trace_retention_days).
Configure(days) ==
    /\ emitPc = "idle"
    /\ trace_retention_days # days
    /\ trace_retention_days' = days
    /\ UNCHANGED <<subscribers, connection_manager, sequence_counter, svcSeq,
                   eventLog, emitPc, emitIdx, emitEvent, emitStream, calls,
                   handlerWorked, propagated, loggedErrors, emitsDone, tasks,
                   broadcast_tasks, cmVars>>

\* WorkflowEvent.sequence is declared with ge=1.
WorkflowEventValid(seq) == seq >= 1

\* _get_next_sequence(workflow_id).
GetNextSequence(w) == sequence_counter[w] + 1

\* The sequence number the service gives its next event of workflow w.
ServiceNextSequence(w) == svcSeq[w] + 1

\* The service builds an ordinary workflow event and calls emit(event).
EmitStart(w) ==
    /\ emitPc = "idle"
    /\ emitsDone < MaxEmits
    /\ svcSeq' = [svcSeq EXCEPT ![w] = ServiceNextSequence(w)]
    /\ eventLog' = [eventLog EXCEPT ![w] = Append(@, ServiceNextSequence(w))]
    /\ emitPc' = "calling"
    /\ emitIdx' = 1
    /\ emitEvent' = w
    /\ calls' = <<>>
    /\ emitsDone' = emitsDone + 1
    /\ loggedErrors' = <<>>
    /\ UNCHANGED <<subscribers, connection_manager, trace_retention_days,
                   sequence_counter, emitStream, handlerWorked, propagated,
                   tasks, broadcast_tasks, cmVars>>

\* emit_stream(event): tool results are filtered unless enabled; with trace
\* retention the event is converted under the bus's own counter and emitted;
\* the stream broadcast is dispatched in every other case.
NewTask(w, kind) ==
    [wf |-> w, kind |-> kind, pc |-> "ready", snap |-> <<>>, idx |-> 0]

\* The coroutine methods ConnectionManager defines.
ConnectionManagerMethods ==
    {"connect", "disconnect", "subscribe", "unsubscribe", "subscribe_all",
     "broadcast", "close_all"}

\* A mutation of HasBroadcastStream: the manager defines broadcast_stream.
HasBroadcastStream_Defined == TRUE

\* self._connection_manager.broadcast_stream: the attribute lookup raises
\* AttributeError when the manager has no such method, before any task is
\* created.
HasBroadcastStream == "broadcast_stream" \in ConnectionManagerMethods

EmitStreamStart(w, type, stream_tool_results) ==
    /\ emitPc = "idle"
    /\ emitsDone < MaxEmits
    /\ emitsDone' = emitsDone + 1
    /\ IF type = "claude_tool_result" /\ ~stream_tool_results
       THEN UNCHANGED <<sequence_counter, eventLog, emitPc, emitIdx,
                        emitEvent, emitStream, calls, loggedErrors, tasks,
                        broadcast_tasks>>
       ELSE IF trace_retention_days > 0
       THEN /\ sequence_counter' =
                 [sequence_counter EXCEPT ![w] = GetNextSequence(w)]
            /\ eventLog' = [eventLog EXCEPT ![w] = Append(@, GetNextSequence(w))]
            /\ emitPc' = "calling"
            /\ emitIdx' = 1
            /\ emitEvent' = w
            /\ emitStream' = TRUE
            /\ calls' = <<>>
            /\ loggedErrors' = <<>>
            /\ UNCHANGED <<tasks, broadcast_tasks>>
       ELSE /\ IF connection_manager /\ HasBroadcastStream
               THEN /\ tasks' = Append(tasks, NewTask(w, "stream"))
                    /\ broadcast_tasks' = broadcast_tasks \cup {Len(tasks) + 1}
               ELSE UNCHANGED <<tasks, broadcast_tasks>>
            /\ UNCHANGED <<sequence_counter, eventLog, emitPc, emitIdx,
                           emitEvent, emitStream, calls, loggedErrors>>
    /\ propagated' = IF /\ ~(type = "claude_tool_result" /\ ~stream_tool_results)
                        /\ trace_retention_days <= 0
                        /\ connection_manager /\ ~HasBroadcastStream
                     THEN TRUE ELSE propagated
    /\ UNCHANGED <<subscribers, connection_manager, trace_retention_days,
                   svcSeq, handlerWorked, cmVars>>

\* BrainstormService.create_session builds its event with sequence=0; the
\* event model rejects it, so nothing is emitted.
BrainstormCreateSession(w) ==
    /\ emitPc = "idle"
    /\ emitsDone < MaxEmits
    /\ emitsDone' = emitsDone + 1
    /\ IF WorkflowEventValid(0)
       THEN /\ eventLog' = [eventLog EXCEPT ![w] = Append(@, 0)]
            /\ emitPc' = "calling"
            /\ emitIdx' = 1
            /\ emitEvent' = w
            /\ calls' = <<>>
            /\ loggedErrors' = <<>>
       ELSE UNCHANGED <<eventLog, emitPc, emitIdx, emitEvent, calls,
                        loggedErrors>>
    /\ UNCHANGED <<subscribers, connection_manager, trace_retention_days,
                   sequence_counter, svcSeq, emitStream, handlerWorked,
                   propagated, tasks, broadcast_tasks, cmVars>>

\* emit: the loop calls the next subscriber, synchronously.
EmitCall ==
    /\ emitPc = "calling"
    /\ emitIdx <= Len(subscribers)
    /\ emitPc' = "in_handler"
    /\ calls' = Append(calls, subscribers[emitIdx])
    /\ handlerWorked' = FALSE
    /\ UNCHANGED <<subscribers, connection_manager, trace_retention_days,
                   sequence_counter, svcSeq, eventLog, emitIdx, emitEvent,
                   emitStream, propagated, loggedErrors, emitsDone, tasks,
                   broadcast_tasks, cmVars>>

\* A slow subscriber is still running; emit is inside the call.
HandlerWork ==
    /\ emitPc = "in_handler"
    /\ ~handlerWorked
    /\ handlerWorked' = TRUE
    /\ UNCHANGED <<subscribers, connection_manager, trace_retention_days,
                   sequence_counter, svcSeq, eventLog, emitPc, emitIdx,
                   emitEvent, emitStream, calls, propagated, loggedErrors,
                   emitsDone, tasks, broadcast_tasks, cmVars>>

\* A mutation of SubscriberErrorCaught: no try/except around the callback.
SubscriberErrorCaught_NoTry(outcome) == outcome # "raise"

\* emit wraps each callback in try/except Exception.
SubscriberErrorCaught(outcome) == TRUE

\* The subscriber returns or raises.
HandlerEnd(outcome) ==
    /\ emitPc = "in_handler"
    /\ handlerWorked' = FALSE
    /\ IF SubscriberErrorCaught(outcome)
       THEN /\ emitPc' = "calling"
            /\ emitIdx' = emitIdx + 1
            /\ loggedErrors' = IF outcome = "raise"
                               THEN Append(loggedErrors, calls[Len(calls)])
                               ELSE loggedErrors
            /\ UNCHANGED <<propagated, emitEvent, emitStream>>
       ELSE /\ emitPc' = "idle"
            /\ emitIdx' = 0
            /\ emitEvent' = 0
            /\ emitStream' = FALSE
            /\ propagated' = TRUE
            /\ UNCHANGED loggedErrors
    /\ UNCHANGED <<subscribers, connection_manager, trace_retention_days,
                   sequence_counter, svcSeq, eventLog, calls, emitsDone, tasks,
                   broadcast_tasks, cmVars>>

\* emit(event) called with the subscriber list as it is at that moment kept
\* for reference.
EmitBegin(w) ==
    /\ EmitStart(w)
    /\ subscribers_at_start' = subscribers
    /\ UNCHANGED <<stream_call, cleanup_pc, cleanup_gathered, cleanup_behind,
                   send_log>>

\* The subscriber that emit is calling calls subscribe(callback).
HandlerSubscribe(h) ==
    /\ emitPc = "in_handler"
    /\ ~InSeq(subscribers, h)
    /\ subscribers' = Append(subscribers, h)
    /\ UNCHANGED <<connection_manager, trace_retention_days, sequence_counter,
                   svcSeq, eventLog, emitPc, emitIdx, emitEvent, emitStream,
                   calls, handlerWorked, propagated, loggedErrors, emitsDone,
                   tasks, broadcast_tasks, cmVars>>

\* The subscriber that emit is calling calls unsubscribe(callback), for
\* itself or for another subscriber.
HandlerUnsubscribe(h) ==
    /\ emitPc = "in_handler"
    /\ InSeq(subscribers, h)
    /\ subscribers' = RemoveFirst(subscribers, h)
    /\ UNCHANGED <<connection_manager, trace_retention_days, sequence_counter,
                   svcSeq, eventLog, emitPc, emitIdx, emitEvent, emitStream,
                   calls, handlerWorked, propagated, loggedErrors, emitsDone,
                   tasks, broadcast_tasks, cmVars>>

\* A mutation of DispatchedTask: emit awaits the broadcast before returning.
DispatchedTask_Awaited(w, kind) ==
    [NewTask(w, kind) EXCEPT !.pc = "done"]

\* asyncio.create_task(broadcast(event)): the task is created, not run.
DispatchedTask(w, kind) == NewTask(w, kind)

\* emit: after the loop, dispatch the broadcast and return; emit_stream then
\* dispatches the stream broadcast.
EmitDispatch ==
    /\ emitPc = "calling"
    /\ emitIdx > Len(subscribers)
    /\ IF connection_manager
       THEN LET t1 == Append(tasks, DispatchedTask(emitEvent, "event"))
                n1 == Len(tasks) + 1
            IN IF emitStream /\ HasBroadcastStream
               THEN /\ tasks' = Append(t1, DispatchedTask(emitEvent, "stream"))
                    /\ broadcast_tasks' = broadcast_tasks \cup {n1, n1 + 1}
               ELSE /\ tasks' = t1
                    /\ broadcast_tasks' = broadcast_tasks \cup {n1}
       ELSE UNCHANGED <<tasks, broadcast_tasks>>
    /\ propagated' = IF connection_manager /\ emitStream /\ ~HasBroadcastStream
                     THEN TRUE ELSE propagated
    /\ emitPc' = "idle"
    /\ emitIdx' = 0
    /\ emitEvent' = 0
    /\ emitStream' = FALSE
    /\ UNCHANGED <<subscribers, connection_manager, trace_retention_days,
                   sequence_counter, svcSeq, eventLog, calls, handlerWorked,
                   loggedErrors, emitsDone, cmVars>>

\* A caller's emit_stream(event), with the event type and the
\* stream_tool_results flag of ServerConfig kept for reference.
EmitStreamCall(w, type, stream_tool_results) ==
    /\ EmitStreamStart(w, type, stream_tool_results)
    /\ stream_call' = [type |-> type,
                       stream_tool_results |-> stream_tool_results, wf |-> w]
    /\ UNCHANGED <<cleanup_pc, cleanup_gathered, cleanup_behind, send_log,
                   subscribers_at_start>>

(***************************************************************************)
(* Connection manager                                                      *)
(***************************************************************************)
busOnly == <<subscribers, connection_manager, trace_retention_days,
             sequence_counter, svcSeq, eventLog, emitPc, emitIdx, emitEvent,
             emitStream, calls, handlerWorked, propagated, loggedErrors,
             emitsDone>>

\* The event loop is free to run coroutines: no emit is in progress.
LoopFree == emitPc = "idle"

\* connect(websocket): accept, then register with the empty set (all).
\* Sockets are numbered in the order they connect.
Connect(c) ==
    /\ LoopFree /\ cmLock = 0
    /\ c \notin usedWs
    /\ \A d \in Conns : d < c => d \in usedWs
    /\ usedWs' = usedWs \cup {c}
    /\ connections' = Append(connections, c)
    /\ subs' = [subs EXCEPT ![c] = {}]
    /\ UNCHANGED <<busOnly, tasks, broadcast_tasks, cmLock, lockWaiters,
                   failedWs>>

\* disconnect(websocket).
Disconnect(c) ==
    /\ LoopFree /\ cmLock = 0
    /\ InSeq(connections, c)
    /\ connections' = RemoveFirst(connections, c)
    /\ subs' = [subs EXCEPT ![c] = {}]
    /\ UNCHANGED <<busOnly, tasks, broadcast_tasks, cmLock, lockWaiters, usedWs,
                   failedWs>>

\* subscribe(websocket, workflow_id).
SubscribeWs(c, w) ==
    /\ LoopFree /\ cmLock = 0
    /\ InSeq(connections, c)
    /\ w \notin subs[c]
    /\ subs' = [subs EXCEPT ![c] = @ \cup {w}]
    /\ UNCHANGED <<busOnly, tasks, broadcast_tasks, connections, cmLock,
                   lockWaiters, usedWs, failedWs>>

\* unsubscribe(websocket, workflow_id).
UnsubscribeWs(c, w) ==
    /\ LoopFree /\ cmLock = 0
    /\ InSeq(connections, c)
    /\ w \in subs[c]
    /\ subs' = [subs EXCEPT ![c] = @ \ {w}]
    /\ UNCHANGED <<busOnly, tasks, broadcast_tasks, connections, cmLock,
                   lockWaiters, usedWs, failedWs>>

\* subscribe_all(websocket).
SubscribeAll(c) ==
    /\ LoopFree /\ cmLock = 0
    /\ InSeq(connections, c)
    /\ subs[c] # {}
    /\ subs' = [subs EXCEPT ![c] = {}]
    /\ UNCHANGED <<busOnly, tasks, broadcast_tasks, connections, cmLock,
                   lockWaiters, usedWs, failedWs>>

\* A mutation of Matches: the empty set no longer means all.
Matches_EmptyIsNone(ids, w) == w \in ids

\* broadcast: "if not subscribed_ids or event.workflow_id in subscribed_ids".
Matches(ids, w) == ids = {} \/ w \in ids

\* list(self._connections.items())
Items == [i \in 1..Len(connections) |->
            [ws |-> connections[i], ids |-> subs[connections[i]]]]

\* Index of the first matching entry of snap at or after from, Len(snap) + 1
\* when there is none.
NextMatch(snap, from, w) ==
    IF \E i \in from..Len(snap) : Matches(snap[i].ids, w)
    THEN CHOOSE i \in from..Len(snap) :
            /\ Matches(snap[i].ids, w)
            /\ \A j \in from..(i - 1) : ~Matches(snap[j].ids, w)
    ELSE Len(snap) + 1

\* A broadcast that has returned: its locals are gone.
Finished(rec) == [rec EXCEPT !.pc = "done", !.snap = <<>>, !.idx = 0]

\* The broadcast goes on from entry `from` of its snapshot: it suspends in the
\* send to the next matching connection, or leaves the lock and ends.
Proceed(t, rec, from) ==
    LET i == NextMatch(rec.snap, from, rec.wf) IN
    IF i <= Len(rec.snap)
    THEN /\ tasks' = [tasks EXCEPT ![t] = [rec EXCEPT !.pc = "sending", !.idx = i]]
         /\ cmLock' = t
         /\ UNCHANGED <<lockWaiters, broadcast_tasks>>
    ELSE /\ broadcast_tasks' = broadcast_tasks \ {t}
         /\ IF lockWaiters = <<>>
            THEN /\ cmLock' = 0
                 /\ lockWaiters' = lockWaiters
                 /\ tasks' = [tasks EXCEPT ![t] = Finished(rec)]
            ELSE /\ cmLock' = Head(lockWaiters)
                 /\ lockWaiters' = Tail(lockWaiters)
                 /\ tasks' = [tasks EXCEPT
                                ![t] = Finished(rec),
                                ![Head(lockWaiters)].pc = "acquired"]

\* A mutation of StartsNext: the loop starts the created tasks in any order.
StartsNext_AnyOrder(t) == TRUE

\* asyncio.create_task queues the first step of the task on the loop's ready
\* queue, which is first in first out: tasks start in creation order.
StartsNext(t) == \A u \in 1..(t - 1) : tasks[u].pc # "ready"

\* The event loop starts a broadcast task: it takes the lock and snapshots
\* the connections, or queues for the lock.
TaskStart(t) ==
    /\ LoopFree
    /\ tasks[t].pc = "ready"
    /\ tasks[t].kind = "event"
    /\ StartsNext(t)
    /\ IF cmLock = 0
       THEN Proceed(t, [tasks[t] EXCEPT !.snap = Items], 1)
       ELSE /\ tasks' = [tasks EXCEPT ![t].pc = "waiting"]
            /\ lockWaiters' = Append(lockWaiters, t)
            /\ UNCHANGED <<cmLock, broadcast_tasks>>
    /\ UNCHANGED <<busOnly, connections, subs, usedWs, failedWs>>

\* A waiter that was handed the lock resumes and snapshots the connections.
TaskResume(t) ==
    /\ LoopFree
    /\ tasks[t].pc = "acquired"
    /\ Proceed(t, [tasks[t] EXCEPT !.snap = Items], 1)
    /\ UNCHANGED <<busOnly, connections, subs, usedWs, failedWs>>

\* A mutation of ConnectionsAfterSend: a failed connection stays registered.
ConnectionsAfterSend_KeepFailed(ws, ok) == connections

\* broadcast: on WebSocketDisconnect or any other error the connection is
\* popped from the map.
ConnectionsAfterSend(ws, ok) ==
    IF ok THEN connections ELSE RemoveFirst(connections, ws)

\* send_json to the current connection completes or fails; the loop goes on.
TaskSendEnd(t, ok) ==
    /\ LoopFree
    /\ tasks[t].pc = "sending"
    /\ LET rec == tasks[t]
           ws == rec.snap[rec.idx].ws
       IN /\ connections' = ConnectionsAfterSend(ws, ok)
          /\ subs' = IF InSeq(connections', ws) THEN subs
                     ELSE [subs EXCEPT ![ws] = {}]
          /\ failedWs' = IF ok THEN failedWs ELSE failedWs \cup {ws}
          /\ Proceed(t, rec, rec.idx + 1)
    /\ UNCHANGED <<busOnly, usedWs>>

\* The send of a broadcast to a socket, noted in the socket's log when the
\* message went out.
SendRecorded(t, ok) ==
    /\ TaskSendEnd(t, ok)
    /\ send_log' = IF ok
                   THEN [send_log EXCEPT
                           ![tasks[t].snap[tasks[t].idx].ws] = Append(@, t)]
                   ELSE send_log
    /\ UNCHANGED <<stream_call, cleanup_pc, cleanup_gathered, cleanup_behind,
                   subscribers_at_start>>

\* cleanup(): with no tracked task it returns at once; otherwise it hands the
\* tasks tracked at this moment to asyncio.gather and suspends.
CleanupBegin ==
    /\ LoopFree
    /\ cleanup_pc = "idle"
    /\ IF broadcast_tasks = {}
       THEN cleanup_pc' = "returned" /\ cleanup_gathered' = {}
       ELSE cleanup_pc' = "waiting" /\ cleanup_gathered' = broadcast_tasks
    /\ UNCHANGED <<busVars, cmVars, stream_call, cleanup_behind, send_log,
                   subscribers_at_start>>

\* Tasks the event loop can run now: created and not started, or handed the
\* lock.
Runnable == {t \in 1..Len(tasks) : tasks[t].pc \in {"ready", "acquired"}}

\* The gathered tasks have all finished: the gather future completes and the
\* wake-up of cleanup is queued behind the tasks that are runnable now.
GatherDone ==
    /\ LoopFree
    /\ cleanup_pc = "waiting"
    /\ \A t \in cleanup_gathered : tasks[t].pc = "done"
    /\ cleanup_pc' = "resuming"
    /\ cleanup_behind' = Runnable
    /\ UNCHANGED <<busVars, cmVars, stream_call, cleanup_gathered, send_log,
                   subscribers_at_start>>

\* cleanup resumes, clears the tracking set and returns.
CleanupEnd ==
    /\ LoopFree
    /\ cleanup_pc = "resuming"
    /\ cleanup_behind \cap Runnable = {}
    /\ broadcast_tasks' = {}
    /\ cleanup_pc' = "returned"
    /\ cleanup_gathered' = {}
    /\ cleanup_behind' = {}
    /\ UNCHANGED <<busOnly, tasks, cmVars, stream_call, send_log,
                   subscribers_at_start>>

(***************************************************************************)
(* Developer and blocker resolution                                        *)
(***************************************************************************)
Steps == 1..NumSteps

\* The steps of the plan are numbered in plan order (batch by batch).
Acyclic(d) ==
    \A c \in (SUBSET Steps) \ {{}} : \E s \in c : d[s] \cap c = {}

\* Validated plans: acyclic depends_on, batches numbered 1, 2, ... in order.
DependsOnChoices == {d \in [Steps -> SUBSET Steps] : Acyclic(d)}

BatchNumberChoices ==
    {b \in [Steps -> 1..NumSteps] :
        /\ b[1] = 1
        /\ \A s \in Steps \ {1} : b[s] \in {b[s - 1], b[s - 1] + 1}}

\* Plans whose steps depend on at most one step, an earlier one.
ChainDependsOnChoices ==
    {d \in [Steps -> SUBSET Steps] :
        \A s \in Steps : d[s] \subseteq 1..(s - 1) /\ Cardinality(d[s]) <= 1}

RiskLevels == {"low", "medium", "high"}
TrustLevels == {"standard", "autonomous"}

\* The steps of the plan in state, and len(plan.batches).
PlanSteps == 1..plan_len

NumBatches == IF plan_len = 0 THEN 0 ELSE batch_number[plan_len]

BatchSteps(batch) == {s \in PlanSteps : batch_number[s] = batch}

\* ExecutionState defaults for everything but the plan and the profile.
InitExecution ==
    /\ plan_len = NumSteps
    /\ skipped_step_ids = {}
    /\ current_blocker = 0
    /\ blocker_resolution = "none"
    /\ current_batch_index = 0
    /\ developer_status = "EXECUTING"
    /\ workflow_status = "running"
    /\ git_snapshot_before_batch = 0
    /\ revert_calls = <<>>
    /\ batch_results = <<>>
    /\ batch_approvals = <<>>
    /\ run_steps = {}
    /\ blockers = 0
    /\ review_iteration = 0
    /\ node = "developer"

\* A state with no plan under execution.
InitDev ==
    /\ depends_on = [s \in Steps |-> {}]
    /\ batch_number = [s \in Steps |-> 1]
    /\ risk_summary = [b \in Steps |-> "low"]
    /\ trust_level = "standard"
    /\ batch_checkpoint_enabled = TRUE
    /\ InitExecution

\* A workflow whose plan has been approved, about to enter the developer node;
\* batch checkpoints are disabled.
InitPlan ==
    /\ depends_on \in DependsOnChoices
    /\ batch_number \in BatchNumberChoices
    /\ risk_summary = [b \in Steps |-> "low"]
    /\ trust_level = "standard"
    /\ batch_checkpoint_enabled = FALSE
    /\ InitExecution

\* One pass of the for loops over all batches and steps, from step i on.
RECURSIVE CascadePass(_, _)
CascadePass(i, all_skipped) ==
    IF i > plan_len
    THEN all_skipped
    ELSE CascadePass(i + 1,
             IF i \notin all_skipped /\ depends_on[i] \cap all_skipped # {}
             THEN all_skipped \cup {i}
             ELSE all_skipped)

\* while found_new_skips: ...
RECURSIVE CascadeLoop(_)
CascadeLoop(all_skipped) ==
    LET next == CascadePass(1, all_skipped)
    IN IF next = all_skipped THEN all_skipped ELSE CascadeLoop(next)

\* A mutation of get_cascade_skips: only the direct dependents.
get_cascade_skips_DirectOnly(step_id, skip_reasons) ==
    {s \in PlanSteps \ skip_reasons : depends_on[s] \cap skip_reasons # {}}

\* A mutation of get_cascade_skips: every later step of the plan.
get_cascade_skips_AllLater(step_id, skip_reasons) ==
    {s \in PlanSteps : s > step_id}

\* get_cascade_skips(step_id, plan, skip_reasons): the newly skipped steps.
get_cascade_skips(step_id, skip_reasons) ==
    CascadeLoop(skip_reasons) \ skip_reasons

\* _execute_batch, step 2a: the steps of the batch skipped for a dependency.
CascadeSkipped(batch) ==
    {s \in BatchSteps(batch) : depends_on[s] \cap skipped_step_ids # {}}

\* The steps of a set that the loop reaches before it returns at step b
\* (all of them when no step blocks, b = 0).
Before(b, S) == IF b = 0 THEN S ELSE {s \in S : s < b}

\* _execute_batch(batch, state) blocking at step b (0: no step blocks): the
\* steps it pre-validates and the BatchResult it returns. The git snapshot it
\* takes is kept in a local variable only.
ExecuteBatchSteps(batch) == BatchSteps(batch) \ CascadeSkipped(batch)

ExecuteBatchResult(batch, b) ==
    [batch_number |-> batch,
     status |-> IF b = 0 THEN "complete" ELSE "blocked",
     blocker |-> b,
     completed |-> Before(b, ExecuteBatchSteps(batch)),
     skipped |-> Before(b, CascadeSkipped(batch))]

\* _recover_from_blocker(state): the completed steps of the last result of
\* this batch are kept; the loop starts at the blocked step.
PreviouslyCompleted(batch) ==
    IF batch_results # <<>>
         /\ batch_results[Len(batch_results)].batch_number = batch
    THEN [completed |-> batch_results[Len(batch_results)].completed,
          skipped |-> batch_results[Len(batch_results)].skipped]
    ELSE [completed |-> {}, skipped |-> {}]

RecoverCandidates(batch) ==
    LET prev == PreviouslyCompleted(batch)
    IN {s \in BatchSteps(batch) \ (prev.completed \cup prev.skipped) :
           /\ s >= current_blocker
           /\ current_blocker \in BatchSteps(batch)
           /\ current_blocker \notin prev.completed \cup prev.skipped}

RecoverSteps(batch) == RecoverCandidates(batch) \ CascadeSkipped(batch)

RecoverResult(batch, b) ==
    LET prev == PreviouslyCompleted(batch)
    IN [batch_number |-> batch,
        status |-> IF b = 0 THEN "complete" ELSE "blocked",
        blocker |-> b,
        completed |-> prev.completed \cup Before(b, RecoverSteps(batch)),
        skipped |-> prev.skipped
                      \cup Before(b, RecoverCandidates(batch)
                                       \cap CascadeSkipped(batch))]

\* run(): "if state.blocker_resolution and state.blocker_resolution not in
\* ('skip', 'abort')".
Recovering ==
    blocker_resolution \notin {"none", "empty", "skip", "abort"}

\* run(): the developer_status it returns when the batch at idx completes.
StatusOnComplete(idx) == "BATCH_COMPLETE"

GraphNodes == {"developer", "batch_approval", "blocker_resolution", "reviewer",
               "END"}

\* A mutation of route_after_developer: autonomous trust never checkpoints.
route_after_developer_AutonomousNeverAsks(status, idx) ==
    IF status = "ALL_DONE" THEN "reviewer"
    ELSE IF status = "BLOCKED" THEN "blocker_resolution"
    ELSE IF status = "BATCH_COMPLETE"
    THEN IF ~batch_checkpoint_enabled THEN "developer"
         ELSE IF trust_level = "autonomous" THEN "developer"
         ELSE "batch_approval"
    ELSE "developer"

\* route_after_developer(state, profile): the conditional edge of the
\* developer node; the next batch is plan.batches[current_batch_index].
route_after_developer(status, idx) ==
    IF status = "ALL_DONE" THEN "reviewer"
    ELSE IF status = "BLOCKED" THEN "blocker_resolution"
    ELSE IF status = "BATCH_COMPLETE"
    THEN IF ~batch_checkpoint_enabled THEN "developer"
         ELSE IF /\ trust_level = "autonomous"
                 /\ idx < NumBatches
                 /\ risk_summary[idx + 1] = "low"
         THEN "developer"
         ELSE "batch_approval"
    ELSE "developer"

\* A mutation of route_blocker_resolution: always back to the developer.
route_blocker_resolution_AlwaysDeveloper(status) == "developer"

\* route_blocker_resolution(state): the edge of the blocker_resolution node.
route_blocker_resolution(status) ==
    IF status = "aborted" THEN "END" ELSE "developer"

\* A mutation of route_batch_approval: always back to the developer.
route_batch_approval_AlwaysDeveloper(approved) == "developer"

\* route_batch_approval(state): the edge of the batch_approval node, on the
\* last BatchApproval.
route_batch_approval(approved) == IF approved THEN "developer" ELSE "END"

\* Developer.run followed by the edge of the developer node. Past the last
\* batch it returns ALL_DONE; with a fix instruction in state it recovers from
\* the blocker, else it executes the batch from its first step; step b blocks
\* (b = 0: none does).
DeveloperRun(b) ==
    /\ node = "developer"
    /\ IF current_batch_index >= NumBatches
       THEN /\ b = 0
            /\ developer_status' = "ALL_DONE"
            /\ UNCHANGED <<current_blocker, current_batch_index,
                           blocker_resolution, batch_results, run_steps,
                           blockers>>
       ELSE LET batch == current_batch_index + 1
                steps == IF Recovering THEN RecoverSteps(batch)
                         ELSE ExecuteBatchSteps(batch)
                result == IF Recovering THEN RecoverResult(batch, b)
                          ELSE ExecuteBatchResult(batch, b)
            IN /\ Recovering => current_blocker # 0
               /\ b = 0 \/ (b \in steps /\ blockers < MaxBlockers)
               /\ run_steps' = Before(b, steps) \cup ({b} \ {0})
               /\ batch_results' = Append(batch_results, result)
               /\ IF b # 0
                  THEN /\ current_blocker' = b
                       /\ developer_status' = "BLOCKED"
                       /\ blockers' = blockers + 1
                       /\ UNCHANGED <<current_batch_index, blocker_resolution>>
                  ELSE /\ current_batch_index' = current_batch_index + 1
                       /\ developer_status' = StatusOnComplete(current_batch_index)
                       /\ blocker_resolution' = "none"
                       /\ UNCHANGED <<current_blocker, blockers>>
    /\ node' = route_after_developer(developer_status', current_batch_index')
    /\ UNCHANGED <<depends_on, batch_number, plan_len, risk_summary,
                   trust_level, batch_checkpoint_enabled, skipped_step_ids,
                   workflow_status, git_snapshot_before_batch, revert_calls,
                   batch_approvals, review_iteration>>

\* The edge of the developer node alone, on a given state.
RouteAfterDeveloper ==
    /\ node = "after_developer"
    /\ node' = route_after_developer(developer_status, current_batch_index)
    /\ UNCHANGED <<depends_on, batch_number, plan_len, risk_summary,
                   trust_level, batch_checkpoint_enabled, skipped_step_ids,
                   current_blocker, blocker_resolution, current_batch_index,
                   developer_status, workflow_status,
                   git_snapshot_before_batch, revert_calls, batch_results,
                   batch_approvals, run_steps, blockers, review_iteration>>

\* "empty" stands for an empty or missing resolution.
BlockerResolutions == {"skip", "abort", "abort_revert", "fix", "empty"}

\* ResolveBlocker(workflow, resolution): the human's answer is stored.
ResolveBlocker(resolution) ==
    /\ node = "blocker_resolution"
    /\ current_blocker # 0
    /\ blocker_resolution = "none"
    /\ blocker_resolution' = resolution
    /\ UNCHANGED <<depends_on, batch_number, plan_len, risk_summary,
                   trust_level, batch_checkpoint_enabled, skipped_step_ids,
                   current_blocker, current_batch_index, developer_status,
                   workflow_status, git_snapshot_before_batch, revert_calls,
                   batch_results, batch_approvals, run_steps, blockers,
                   review_iteration, node>>

\* A mutation of RevertWanted: plain abort reverts too.
RevertWanted_OnAnyAbort(resolution, snapshot) ==
    resolution \in {"abort", "abort_revert"} /\ snapshot # 0

\* blocker_resolution_node: whether revert_to_git_snapshot is called.
RevertWanted(resolution, snapshot) ==
    resolution = "abort_revert" /\ snapshot # 0

\* blocker_resolution_node followed by its edge: skip adds the blocked step
\* and its cascade (the delta is merged by set union); abort and abort_revert
\* end the workflow, the latter after reverting to the snapshot in state when
\* there is one; anything else clears the blocker for the developer.
blocker_resolution_node ==
    /\ node = "blocker_resolution"
    /\ current_blocker # 0
    /\ blocker_resolution # "none"
    /\ revert_calls' =
         IF RevertWanted(blocker_resolution, git_snapshot_before_batch)
         THEN Append(revert_calls, git_snapshot_before_batch)
         ELSE revert_calls
    /\ IF blocker_resolution = "skip"
       THEN /\ skipped_step_ids' =
                 skipped_step_ids \cup {current_blocker}
                   \cup get_cascade_skips(current_blocker, {current_blocker})
            /\ UNCHANGED workflow_status
       ELSE IF blocker_resolution \in {"abort", "abort_revert"}
       THEN /\ workflow_status' = "aborted"
            /\ UNCHANGED skipped_step_ids
       ELSE UNCHANGED <<skipped_step_ids, workflow_status>>
    /\ current_blocker' = 0
    /\ blocker_resolution' = "none"
    /\ node' = route_blocker_resolution(workflow_status')
    /\ UNCHANGED <<depends_on, batch_number, plan_len, risk_summary,
                   trust_level, batch_checkpoint_enabled, current_batch_index,
                   developer_status, git_snapshot_before_batch, batch_results,
                   batch_approvals, run_steps, blockers, review_iteration>>

\* batch_approval_node resumed with the human's decision, followed by its
\* edge: the approval of the batch just completed is appended.
batch_approval_node(human_approved) ==
    /\ node = "batch_approval"
    /\ batch_approvals' =
         Append(batch_approvals, [batch_number |-> current_batch_index - 1,
                                  approved |-> human_approved])
    /\ node' = route_batch_approval(human_approved)
    /\ UNCHANGED <<depends_on, batch_number, plan_len, risk_summary,
                   trust_level, batch_checkpoint_enabled, skipped_step_ids,
                   current_blocker, blocker_resolution, current_batch_index,
                   developer_status, workflow_status,
                   git_snapshot_before_batch, revert_calls, batch_results,
                   run_steps, blockers, review_iteration>>

\* The reviewer node followed by its edge: approved ends the run; rejected
\* within the iteration budget replaces the plan by a fix plan of one batch
\* with one step (create_synthetic_plan_from_review) and re-enters the
\* developer.
reviewer_node(approved) ==
    /\ node = "reviewer"
    /\ IF ~approved /\ review_iteration < max_review_iterations /\ plan_len > 0
       THEN /\ plan_len' = 1
            /\ depends_on' = [s \in Steps |-> {}]
            /\ batch_number' = [s \in Steps |-> 1]
            /\ risk_summary' = [b \in Steps |-> "low"]
            /\ review_iteration' = review_iteration + 1
            /\ node' = "developer"
       ELSE /\ node' = "END"
            /\ UNCHANGED <<plan_len, depends_on, batch_number, risk_summary,
                           review_iteration>>
    /\ UNCHANGED <<trust_level, batch_checkpoint_enabled, skipped_step_ids,
                   current_blocker, blocker_resolution, current_batch_index,
                   developer_status, workflow_status,
                   git_snapshot_before_batch, revert_calls, batch_results,
                   batch_approvals, run_steps, blockers>>

(***************************************************************************)
(* Step execution                                                          *)
(***************************************************************************)
\* Output is a sequence of characters; "ESC" stands for one ANSI escape
\* sequence.
Stdouts == {<<>>, <<"a">>, <<"b">>, <<"ESC", "a">>, <<"a", "ESC", "b">>}

\* expected_output_pattern: no pattern (None) or one literal pattern.
Patterns == {{}, {<<"a">>}, {<<"a", "b">>}}

ExitCodes == {0, 1}

\* What running one command of the step does: its exit code and stdout. An
\* empty entry stands for a command that is None or "".
CommandRuns == [empty : BOOLEAN, exit_code : ExitCodes, stdout : Stdouts]

NoResult == [status |-> "none", executed_command |-> 0]

\* strip_ansi(stdout): the escape sequences are removed.
strip_ansi(stdout) == SelectSeq(stdout, LAMBDA c : c # "ESC")

\* re.search(pattern, text): the pattern occurs somewhere in the text.
re_search(pattern, text) ==
    \E i \in 1..(Len(text) + 1) :
        /\ i + Len(pattern) - 1 <= Len(text)
        /\ SubSeq(text, i, i + Len(pattern) - 1) = pattern

\* validate_command_result(exit_code, stdout, step)
validate_command_result(exit_code, stdout, st) ==
    IF exit_code # st.expect_exit_code
    THEN FALSE
    ELSE IF \E pattern \in st.expected_output_pattern :
                 ~re_search(pattern, strip_ansi(stdout))
    THEN FALSE
    ELSE TRUE

\* run_shell_command(cmd) raises when the command fails, that is when it
\* exits with a non-zero code; otherwise it returns the output.
RunShellCommandRaises(run) == run.exit_code # 0

\* The for loop over commands_to_try from entry i on: the first command that
\* run_shell_command returns for completes the step.
RECURSIVE TryCommands(_, _)
TryCommands(i, commands_to_try) ==
    IF i > Len(commands_to_try)
    THEN [status |-> "failed", executed_command |-> Len(commands_to_try)]
    ELSE IF commands_to_try[i].empty
    THEN TryCommands(i + 1, commands_to_try)
    ELSE IF ~RunShellCommandRaises(commands_to_try[i])
    THEN [status |-> "completed", executed_command |-> i]
    ELSE TryCommands(i + 1, commands_to_try)

\* No step has been given to the executor.
InitStep ==
    /\ step = [commands |-> <<>>, expect_exit_code |-> 0,
               expected_output_pattern |-> {}]
    /\ step_result = NoResult

\* Any command step: the primary command and its fallbacks with what each
\* does when run, the expected exit code and the optional pattern.
InitCommandStep ==
    /\ step \in [commands : UNION {[1..n -> CommandRuns] : n \in 1..MaxCommands},
                 expect_exit_code : ExitCodes,
                 expected_output_pattern : Patterns]
    /\ ~step.commands[1].empty
    /\ step_result = NoResult

\* _execute_step_with_fallbacks(step, state) for action_type "command".
ExecuteStepWithFallbacks ==
    /\ step_result = NoResult
    /\ step.commands # <<>>
    /\ step_result' = TryCommands(1, step.commands)
    /\ UNCHANGED step

\* No emit_stream call yet.
NoStreamCall == [type |-> "none", stream_tool_results |-> FALSE, wf |-> 0]

InitShut ==
    /\ stream_call = NoStreamCall
    /\ cleanup_pc = "idle"
    /\ cleanup_gathered = {}
    /\ cleanup_behind = {}
    /\ send_log = [c \in Conns |-> <<>>]
    /\ subscribers_at_start = <<>>

\* Steps a batch may hold, and batches a plan may hold.
MaxBatchSteps == 6
MaxPlanBatches == 2

\* validate_and_split_batches not yet called.
NoValidation == [batches |-> <<>>, warnings |-> -1]

\* RISK_LIMITS
RISK_LIMITS == [r \in RiskLevels |->
                  IF r = "low" THEN 5 ELSE IF r = "medium" THEN 3 ELSE 1]

Min(a, b) == IF a < b THEN a ELSE b

\* The risk summary of a chunk: high if any step is high, else medium if any
\* step is medium, else low. A step is given by its risk_level.
chunk_risk(chunk) ==
    IF \E i \in 1..Len(chunk) : chunk[i] = "high" THEN "high"
    ELSE IF \E i \in 1..Len(chunk) : chunk[i] = "medium" THEN "medium"
    ELSE "low"

\* for i in range(0, len(steps_list), max_size): the chunks of a batch that
\* is over its limit, from 1-based position i on.
RECURSIVE SplitChunks(_, _, _)
SplitChunks(steps_list, i, max_size) ==
    IF i > Len(steps_list) THEN <<>>
    ELSE LET chunk == SubSeq(steps_list, i,
                             Min(i + max_size - 1, Len(steps_list)))
         IN <<[batch_number |-> 0, steps |-> chunk,
               risk_summary |-> chunk_risk(chunk)]>>
            \o SplitChunks(steps_list, i + max_size, max_size)

\* The loop over plan.batches: a batch within its limit is kept as it is, a
\* larger one is replaced by its chunks and a warning is added.
RECURSIVE NewBatches(_, _)
NewBatches(batches, k) ==
    IF k > Len(batches) THEN [batches |-> <<>>, warnings |-> 0]
    ELSE LET batch == batches[k]
             max_size == RISK_LIMITS[batch.risk_summary]
             rest == NewBatches(batches, k + 1)
         IN IF Len(batch.steps) <= max_size
            THEN [batches |-> <<batch>> \o rest.batches,
                  warnings |-> rest.warnings]
            ELSE [batches |-> SplitChunks(batch.steps, 1, max_size)
                                \o rest.batches,
                  warnings |-> rest.warnings + 1]

\* validate_and_split_batches(plan): split, then renumber from 1.
validate_and_split_batches(p) ==
    LET new == NewBatches(p, 1)
    IN [batches |-> [i \in 1..Len(new.batches) |->
                        [new.batches[i] EXCEPT !.batch_number = i]],
        warnings |-> new.warnings]

\* A batch of n steps, all of risk r, or all but the step at position k,
\* which has risk o.
StepLists(n) ==
    {[i \in 1..n |-> r] : r \in RiskLevels}
    \cup {[i \in 1..n |-> IF i = k THEN o ELSE r] :
            r \in RiskLevels, o \in RiskLevels, k \in 1..n}

\* A batch of one step whose risk_summary is the step's risk_level.
SingleStepBatch(r) == [batch_number |-> 0, steps |-> <<r>>, risk_summary |-> r]

\* The plans of n batches given to the validator: one batch of any declared
\* risk_summary and any steps, among single-step batches, numbered from 1.
InputPlans(n) ==
    {[i \in 1..n |->
        [(IF i = p THEN [batch_number |-> 0, steps |-> st, risk_summary |-> rs]
          ELSE SingleStepBatch(q)) EXCEPT !.batch_number = i]] :
      p \in 1..n, q \in RiskLevels, rs \in RiskLevels,
      st \in UNION {StepLists(m) : m \in 1..MaxBatchSteps}}

\* No plan has been given to the validator.
InitArch ==
    /\ plan = <<>>
    /\ validated = NoValidation

\* The plan_validator step: Architect.generate_execution_plan calls
\* validate_and_split_batches on the plan the driver produced.
ValidateAndSplit ==
    /\ validated = NoValidation
    /\ plan # <<>>
    /\ validated' = validate_and_split_batches(plan)
    /\ UNCHANGED plan

\* Tasks a TaskDAG may hold; an id that no task has.
MaxTasks == 3
UnknownId == 0

WHITE == 0
GRAY == 1
BLACK == 2

\* A mutation of IsBackEdge: any neighbour already visited counts as a cycle.
IsBackEdge_AnyVisited(color, neighbor) == color[neighbor] # WHITE

\* dfs: "if color[neighbor] == GRAY: return True  # Back edge = cycle".
IsBackEdge(color, neighbor) == color[neighbor] = GRAY

\* dfs(nd), from neighbour number i of nd on, with the colouring so far:
\* whether a cycle was detected, and the colouring left behind.
RECURSIVE dfs_from(_, _, _, _)
dfs_from(adjacency, nd, i, color) ==
    IF i > Len(adjacency[nd])
    THEN [cycle |-> FALSE, color |-> [color EXCEPT ![nd] = BLACK]]
    ELSE LET neighbor == adjacency[nd][i] IN
         IF IsBackEdge(color, neighbor)
         THEN [cycle |-> TRUE, color |-> color]
         ELSE IF color[neighbor] = WHITE
         THEN LET sub == dfs_from(adjacency, neighbor, 1,
                                  [color EXCEPT ![neighbor] = GRAY])
              IN IF sub.cycle THEN sub
                 ELSE dfs_from(adjacency, nd, i + 1, sub.color)
         ELSE dfs_from(adjacency, nd, i + 1, color)

dfs(adjacency, nd, color) ==
    dfs_from(adjacency, nd, 1, [color EXCEPT ![nd] = GRAY])

\* "for tid in task_ids: if color[tid] == WHITE and dfs(tid)": the ids are
\* visited in the order the set yields them.
RECURSIVE AnyCycle(_, _, _, _)
AnyCycle(adjacency, order, k, color) ==
    IF k > Len(order) THEN FALSE
    ELSE IF color[order[k]] = WHITE
    THEN LET r == dfs(adjacency, order[k], color)
         IN r.cycle \/ AnyCycle(adjacency, order, k + 1, r.color)
    ELSE AnyCycle(adjacency, order, k + 1, color)

\* validate_task_graph(tasks): the existence check, then the cycle check.
validate_task_graph(task_list, order) ==
    IF \E t \in DOMAIN task_list : \E i \in 1..Len(task_list[t]) :
           task_list[t][i] \notin DOMAIN task_list
    THEN "not_found"
    ELSE IF AnyCycle(task_list, order, 1, [t \in DOMAIN task_list |-> WHITE])
    THEN "cyclic"
    ELSE "accepted"

\* The ids 1..n starting from id k and wrapping around.
Rotation(n, k) == [i \in 1..n |-> ((k + i - 2) % n) + 1]

\* No task list has been validated.
InitDag ==
    /\ dag_tasks = <<>>
    /\ dag_result = "none"

\* TaskDAG(tasks=...): the field validator runs on construction.
ValidateTaskGraph ==
    /\ dag_result = "none"
    /\ dag_tasks # <<>>
    /\ \E k \in 1..Len(dag_tasks) :
         dag_result' = validate_task_graph(dag_tasks, Rotation(Len(dag_tasks), k))
    /\ UNCHANGED dag_tasks

\* The largest state.max_review_passes explored (3 is the default).
MaxPasses == 3

\* route_after_evaluation(state).
route_after_evaluation ==
    IF auto_approve THEN "developer_node" ELSE "review_approval_node"

\* A mutation of route_after_fixes: no check of the pass counter.
route_after_fixes_NoMaxCheck(pass) ==
    IF auto_approve
    THEN IF items_to_implement THEN "reviewer_node" ELSE "END"
    ELSE "end_approval_node"

\* route_after_fixes(state), with the pass counter the state holds when the
\* router runs.
route_after_fixes(pass) ==
    IF pass >= max_review_passes THEN "END"
    ELSE IF auto_approve
    THEN IF items_to_implement THEN "reviewer_node" ELSE "END"
    ELSE "end_approval_node"

\* route_after_end_approval(state), with the flag the state holds when the
\* router runs.
route_after_end_approval(approved) ==
    IF approved = "yes" THEN "END" ELSE "reviewer_node"

\* The review graph at its entry point.
InitReview ==
    /\ review_node = "reviewer_node"
    /\ review_pass = 0
    /\ max_review_passes = MaxPasses
    /\ auto_approve = FALSE
    /\ items_to_implement = FALSE
    /\ state_human_approved = "none"
    /\ review_cycles = 0
    /\ consumed = FALSE

\* reviewer_node, then the static edge to evaluation_node.
ReviewerNode ==
    /\ review_node = "reviewer_node"
    /\ review_node' = "evaluation_node"
    /\ review_cycles' = review_cycles + 1
    /\ UNCHANGED <<review_pass, max_review_passes, auto_approve,
                   items_to_implement,
                   state_human_approved, consumed>>

\* call_evaluation_node: the evaluator classifies the review items; then
\* route_after_evaluation.
EvaluationNode(items) ==
    /\ review_node = "evaluation_node"
    /\ items_to_implement' = items
    /\ review_node' = route_after_evaluation
    /\ UNCHANGED <<review_pass, max_review_passes, auto_approve,
                   state_human_approved,
                   review_cycles, consumed>>

\* review_approval_node as "review_approval_node": the graph interrupts before
\* it, the human's decision is written to the state and the run resumes; the
\* node returns {} and the static edge leads to developer_node.
ReviewApprovalNode(decision) ==
    /\ review_node = "review_approval_node"
    /\ state_human_approved' = decision
    /\ consumed' = TRUE
    /\ review_node' = "developer_node"
    /\ UNCHANGED <<review_pass, max_review_passes, auto_approve,
                   items_to_implement,
                   review_cycles>>

\* developer_node applies the fixes, which counts one review pass; then
\* route_after_fixes.
DeveloperNode ==
    /\ review_node = "developer_node"
    /\ review_pass <= max_review_passes
    /\ review_pass' = review_pass + 1
    /\ review_node' = route_after_fixes(review_pass')
    /\ UNCHANGED <<max_review_passes, auto_approve, items_to_implement,
                   state_human_approved, review_cycles, consumed>>

\* review_approval_node as "end_approval_node": interrupt, decision, resume as
\* above; the node returns {} and route_after_end_approval reads the flag.
EndApprovalNode(decision) ==
    /\ review_node = "end_approval_node"
    /\ state_human_approved' = decision
    /\ consumed' = TRUE
    /\ review_node' = route_after_end_approval(state_human_approved')
    /\ UNCHANGED <<review_pass, max_review_passes, auto_approve,
                   items_to_implement,
                   review_cycles>>

\* No socket has unsubscribed from anything.
InitSub == unsubscribed = [c \in Conns |-> {}]

\* subscribe(websocket, workflow_id), noted.
SubscribeNoted(c, w) ==
    /\ SubscribeWs(c, w)
    /\ unsubscribed' = [unsubscribed EXCEPT ![c] = @ \ {w}]

\* unsubscribe(websocket, workflow_id), noted.
UnsubscribeNoted(c, w) ==
    /\ UnsubscribeWs(c, w)
    /\ unsubscribed' = [unsubscribed EXCEPT ![c] = @ \cup {w}]

\* subscribe_all(websocket), noted.
SubscribeAllNoted(c) ==
    /\ SubscribeAll(c)
    /\ unsubscribed' = [unsubscribed EXCEPT ![c] = {}]

InitCall == task_call = <<>>

\* The tasks a step creates belong to the emit call counted last.
TaskCallNoted ==
    task_call' = task_call \o [i \in 1..(Len(tasks') - Len(tasks)) |-> emitsDone']

\* emit_stream(event), its tasks noted.
EmitStreamNoted(w, type, stream_tool_results) ==
    /\ EmitStreamCall(w, type, stream_tool_results)
    /\ TaskCallNoted

\* The end of emit, its tasks noted.
EmitDispatchNoted ==
    /\ EmitDispatch
    /\ TaskCallNoted
    /\ UNCHANGED shutVars

\* A send of a broadcast, noted in the socket's log.
SendNoted(t, ok) ==
    /\ SendRecorded(t, ok)
    /\ UNCHANGED task_call

\* The most workflows in the repository, the latest start time and the
\* largest page size explored.
MaxRows == 3
MaxStart == 2
MaxLimit == 2

\* started_at of a workflow that has not been started; no cursor; no response.
NotStarted == 0
NoCursor == <<>>
NoPage == [has_more |-> FALSE, cursor |-> NoCursor, workflows |-> <<>>]

\* f"{last.started_at.isoformat()}|{last.id}", base64-encoded.
EncodeCursor(w) == <<w.started_at, w.id>>

\* base64-decode, split at the first "|", parse the timestamp.
DecodeCursor(c) == [after_started_at |-> c[1], after_id |-> c[2]]

\* The repository's order: latest started_at first, then largest id; a
\* workflow that has not started sorts last.
RECURSIVE RepositoryOrder(_)
RepositoryOrder(ids) ==
    IF ids = {} THEN <<>>
    ELSE LET first == CHOOSE i \in ids : \A j \in ids \ {i} :
                         \/ started_at[i] > started_at[j]
                         \/ started_at[i] = started_at[j] /\ i > j
         IN <<[id |-> first, started_at |-> started_at[first]]>>
              \o RepositoryOrder(ids \ {first})

\* repository.list_workflows(limit, after_started_at, after_id): the first
\* rows that come after the cursor position in the repository's order.
RepositoryList(limit, c) ==
    LET after == IF c = NoCursor THEN DOMAIN started_at
                 ELSE {i \in DOMAIN started_at :
                         \/ started_at[i] < DecodeCursor(c).after_started_at
                         \/ /\ started_at[i] = DecodeCursor(c).after_started_at
                            /\ i < DecodeCursor(c).after_id}
         rows == RepositoryOrder(after)
    IN SubSeq(rows, 1, Min(limit, Len(rows)))

\* list_workflows: "Build next cursor".
NextCursor(has_more, workflows) ==
    IF has_more /\ workflows # <<>>
         /\ workflows[Len(workflows)].started_at # NotStarted
    THEN EncodeCursor(workflows[Len(workflows)])
    ELSE NoCursor

\* list_workflows(limit, cursor) without filters: the response.
list_workflows(limit, c) ==
    LET fetched == RepositoryList(limit + 1, c)
        has_more == Len(fetched) > limit
        workflows == IF has_more THEN SubSeq(fetched, 1, limit) ELSE fetched
    IN [has_more |-> has_more,
        cursor |-> NextCursor(has_more, workflows),
        workflows |-> workflows]

\* A repository of one workflow that has not started; no page read yet.
InitPage ==
    /\ started_at = [i \in 1..1 |-> NotStarted]
    /\ page_limit = 1
    /\ page_cursor = NoCursor
    /\ page_response = NoPage
    /\ page_seen = <<>>

\* The client requests the first page, or the next one with the cursor of
\* the last response while that response reports has_more.
ListWorkflows ==
    /\ page_response = NoPage \/ page_response.has_more
    /\ page_response # NoPage => page_response.cursor # NoCursor
    /\ page_response' = list_workflows(page_limit, page_cursor)
    /\ page_cursor' = page_response'.cursor
    /\ page_seen' = page_seen \o [i \in 1..Len(page_response'.workflows) |->
                                    page_response'.workflows[i].id]
    /\ UNCHANGED <<started_at, page_limit>>

InitLate == InitDag /\ InitReview /\ InitSub /\ InitCall /\ InitPage

InitRest == InitStep /\ InitSvc /\ InitShut /\ InitArch /\ InitLate

\* Frames: what the actions of one component leave alone.
OrchFrame == UNCHANGED <<busVars, cmVars, devVars, restVars>>
BusFrame == UNCHANGED <<storeVars, reqVars, devVars, restVars>>
DevFrame == UNCHANGED <<storeVars, reqVars, busVars, cmVars, restVars>>

Init ==
    /\ InitStore /\ InitReq /\ InitBus /\ InitCm /\ InitRest /\ InitDev
    /\ connection_manager = FALSE

\* set_connection_manager(manager) has been called at startup.
InitSockets ==
    /\ InitStore /\ InitReq /\ InitBus /\ InitCm /\ InitRest /\ InitDev
    /\ connection_manager = TRUE

NextStore ==
    \/ \E w \in WorkflowIds, s \in WorkflowStatus : StoreCreate(w, s) /\ OrchFrame
    \/ \E w \in WorkflowIds, t \in WorkflowStatus :
         StoreSetStatus(w, t) /\ OrchFrame

SpecStore == Init /\ [][NextStore]_vars

NextOrch ==
    \/ \E r \in Requests : ReqAcquire(r) /\ OrchFrame
    \/ \E r \in Requests : ReqCount(r) /\ OrchFrame
    \/ \E r \in Requests, p \in Paths : ReqCheckWorktree(r, p) /\ OrchFrame
    \/ \E r \in Requests, st \in BOOLEAN : ReqCreate(r, st) /\ OrchFrame
    \/ \E r \in Requests : ReqLaunch(r) /\ OrchFrame
    \/ \E r \in Requests : ReqReturn(r) /\ OrchFrame
    \/ \E w \in WorkflowIds : StartPending(w) /\ OrchFrame
    \/ \E w \in WorkflowIds : CancelWorkflow(w) /\ OrchFrame
    \/ \E w \in WorkflowIds, t \in {"blocked", "completed", "failed"} :
         TaskOutcome(w, t) /\ OrchFrame
    \/ \E w \in WorkflowIds : ApproveAtInterrupt(w) /\ OrchFrame

SpecOrch == Init /\ [][NextOrch]_vars

StreamTypes == {"claude_thinking", "claude_tool_result"}

\* Event sequencing: the service and emit_stream issue events; no sockets.
NextSeq ==
    \/ \E h \in Handlers : Subscribe(h) /\ BusFrame
    \/ \E d \in {0, 7} : Configure(d) /\ BusFrame
    \/ \E w \in EventWorkflows : EmitStart(w) /\ BusFrame
    \/ \E w \in EventWorkflows, ty \in StreamTypes, b \in BOOLEAN :
         EmitStreamStart(w, ty, b) /\ BusFrame
    \/ \E w \in EventWorkflows : BrainstormCreateSession(w) /\ BusFrame
    \/ EmitCall /\ BusFrame
    \/ \E o \in {"return", "raise"} : HandlerEnd(o) /\ BusFrame
    \/ EmitDispatch /\ BusFrame

SpecSeq == Init /\ [][NextSeq]_vars

\* Fan-out to in-process subscribers: emit with a connection manager set;
\* the dispatched broadcasts have not been scheduled yet.
NextBus ==
    \/ \E h \in Handlers : Subscribe(h) /\ BusFrame
    \/ \E h \in Handlers : Unsubscribe(h) /\ BusFrame
    \/ \E w \in EventWorkflows : EmitStart(w) /\ BusFrame
    \/ EmitCall /\ BusFrame
    \/ HandlerWork /\ BusFrame
    \/ \E o \in {"return", "raise"} : HandlerEnd(o) /\ BusFrame
    \/ EmitDispatch /\ BusFrame

SpecBus == InitSockets /\ [][NextBus]_vars

\* Fan-out to sockets: emit with no in-process subscriber, connections that
\* come, go and change their subscriptions, and the broadcast tasks.
NextSockets ==
    \/ \E w \in EventWorkflows : EmitStart(w) /\ BusFrame
    \/ EmitDispatch /\ BusFrame
    \/ \E c \in Conns : Connect(c) /\ BusFrame
    \/ \E c \in Conns : Disconnect(c) /\ BusFrame
    \/ \E c \in Conns, w \in EventWorkflows : SubscribeWs(c, w) /\ BusFrame
    \/ \E c \in Conns, w \in EventWorkflows : UnsubscribeWs(c, w) /\ BusFrame
    \/ \E c \in Conns : SubscribeAll(c) /\ BusFrame
    \/ \E t \in 1..Len(tasks) : TaskStart(t) /\ BusFrame
    \/ \E t \in 1..Len(tasks) : TaskResume(t) /\ BusFrame
    \/ \E t \in 1..Len(tasks), ok \in BOOLEAN : TaskSendEnd(t, ok) /\ BusFrame

SpecSockets == InitSockets /\ [][NextSockets]_vars

InitSkip ==
    /\ InitStore /\ InitReq /\ InitBus /\ InitCm /\ InitRest /\ InitPlan
    /\ connection_manager = FALSE

\* Batch execution with blockers and their resolutions, over every plan.
NextSkip ==
    \/ \E b \in {0} \cup Steps : DeveloperRun(b) /\ DevFrame
    \/ \E r \in {"skip", "abort", "fix"} : ResolveBlocker(r) /\ DevFrame
    \/ blocker_resolution_node /\ DevFrame

SpecSkip == InitSkip /\ [][NextSkip]_vars

\* The profiles and batch risks that route differently after a batch.
GraphProfiles ==
    {[trust_level |-> "standard", batch_checkpoint_enabled |-> TRUE,
      risk |-> "low"],
     [trust_level |-> "standard", batch_checkpoint_enabled |-> FALSE,
      risk |-> "low"],
     [trust_level |-> "autonomous", batch_checkpoint_enabled |-> TRUE,
      risk |-> "low"],
     [trust_level |-> "autonomous", batch_checkpoint_enabled |-> TRUE,
      risk |-> "high"]}

\* A workflow whose plan has been approved, under any of these profiles.
InitGraph ==
    /\ InitStore /\ InitReq /\ InitBus /\ InitCm /\ InitRest
    /\ connection_manager = FALSE
    /\ depends_on \in ChainDependsOnChoices
    /\ batch_number \in BatchNumberChoices
    /\ \E p \in GraphProfiles :
         /\ trust_level = p.trust_level
         /\ batch_checkpoint_enabled = p.batch_checkpoint_enabled
         /\ risk_summary = [b \in Steps |-> p.risk]
    /\ InitExecution

\* The execution part of the orchestrator graph: developer, batch approval,
\* blocker resolution and reviewer, with the humans' answers.
NextGraph ==
    \/ \E b \in {0} \cup Steps : DeveloperRun(b) /\ DevFrame
    \/ \E r \in BlockerResolutions : ResolveBlocker(r) /\ DevFrame
    \/ blocker_resolution_node /\ DevFrame
    \/ \E a \in BOOLEAN : batch_approval_node(a) /\ DevFrame
    \/ \E a \in BOOLEAN : reviewer_node(a) /\ DevFrame

SpecGraph == InitGraph /\ [][NextGraph]_vars

Snapshots == 1..NumSnapshots

\* The blocker_resolution node on any blocked state: any plan, any blocked
\* step of the first batch, any answer, with or without a snapshot in state.
InitNode ==
    /\ InitStore /\ InitReq /\ InitBus /\ InitCm /\ InitRest
    /\ connection_manager = FALSE
    /\ depends_on \in DependsOnChoices
    /\ batch_number \in BatchNumberChoices
    /\ risk_summary = [b \in Steps |-> "low"]
    /\ trust_level = "standard"
    /\ batch_checkpoint_enabled = TRUE
    /\ plan_len = NumSteps
    /\ skipped_step_ids = {}
    /\ current_blocker \in BatchSteps(1)
    /\ blocker_resolution \in BlockerResolutions
    /\ current_batch_index = 0
    /\ developer_status = "BLOCKED"
    /\ workflow_status = "running"
    /\ git_snapshot_before_batch \in {0} \cup Snapshots
    /\ revert_calls = <<>>
    /\ batch_results = <<>>
    /\ batch_approvals = <<>>
    /\ run_steps = {current_blocker}
    /\ blockers = 1
    /\ review_iteration = 0
    /\ node = "blocker_resolution"

NextNode == blocker_resolution_node /\ DevFrame

SpecNode == InitNode /\ [][NextNode]_vars

DeveloperStatuses == {"EXECUTING", "BATCH_COMPLETE", "BLOCKED", "ALL_DONE"}

\* The edge of the developer node on any state and profile.
InitRoute ==
    /\ InitStore /\ InitReq /\ InitBus /\ InitCm /\ InitRest
    /\ connection_manager = FALSE
    /\ depends_on = [s \in Steps |-> {}]
    /\ batch_number \in BatchNumberChoices
    /\ risk_summary \in [Steps -> RiskLevels]
    /\ trust_level \in TrustLevels
    /\ batch_checkpoint_enabled \in BOOLEAN
    /\ plan_len = NumSteps
    /\ skipped_step_ids = {}
    /\ current_blocker = 0
    /\ blocker_resolution = "none"
    /\ current_batch_index \in 0..NumBatches
    /\ developer_status \in DeveloperStatuses
    /\ workflow_status = "running"
    /\ git_snapshot_before_batch = 0
    /\ revert_calls = <<>>
    /\ batch_results = <<>>
    /\ batch_approvals = <<>>
    /\ run_steps = {}
    /\ blockers = 0
    /\ review_iteration = 0
    /\ node = "after_developer"

NextRoute == RouteAfterDeveloper /\ DevFrame

SpecRoute == InitRoute /\ [][NextRoute]_vars

ShutFrame == UNCHANGED <<storeVars, reqVars, devVars, stepVars, svcVars,
                         archVars,
                         lateVars>>

\* Stream events: emit_stream with a connection manager set, trace retention
\* switched on and off, in-process subscribers and sockets.
NextStream ==
    \/ \E h \in Handlers : Subscribe(h) /\ BusFrame
    \/ \E d \in {0, 7} : Configure(d) /\ BusFrame
    \/ \E w \in EventWorkflows, ty \in StreamTypes, b \in BOOLEAN :
         EmitStreamCall(w, ty, b) /\ ShutFrame
    \/ EmitCall /\ BusFrame
    \/ \E o \in {"return", "raise"} : HandlerEnd(o) /\ BusFrame
    \/ EmitDispatch /\ BusFrame
    \/ \E c \in Conns : Connect(c) /\ BusFrame
    \/ \E t \in 1..Len(tasks) : TaskStart(t) /\ BusFrame
    \/ \E t \in 1..Len(tasks) : TaskResume(t) /\ BusFrame
    \/ \E t \in 1..Len(tasks), ok \in BOOLEAN : TaskSendEnd(t, ok) /\ BusFrame

SpecStream == InitSockets /\ [][NextStream]_vars

\* Shutdown: cleanup runs on the event loop beside the emits of the workflow
\* tasks and the broadcasts they dispatch.
NextShutdown ==
    \/ \E w \in EventWorkflows : EmitStart(w) /\ BusFrame
    \/ EmitDispatch /\ BusFrame
    \/ \E c \in Conns : Connect(c) /\ BusFrame
    \/ \E t \in 1..Len(tasks) : TaskStart(t) /\ BusFrame
    \/ \E t \in 1..Len(tasks) : TaskResume(t) /\ BusFrame
    \/ \E t \in 1..Len(tasks), ok \in BOOLEAN : TaskSendEnd(t, ok) /\ BusFrame
    \/ CleanupBegin /\ ShutFrame
    \/ GatherDone /\ ShutFrame
    \/ CleanupEnd /\ ShutFrame

SpecShutdown == InitSockets /\ [][NextShutdown]_vars

\* Delivery order: emits, the broadcasts they dispatch, sockets that connect
\* at any time, and sockets that narrow their subscription before the first
\* event is emitted.
NextOrder ==
    \/ \E w \in EventWorkflows : EmitStart(w) /\ BusFrame
    \/ EmitDispatch /\ BusFrame
    \/ \E c \in Conns : Connect(c) /\ BusFrame
    \/ \E c \in Conns, w \in EventWorkflows :
         emitsDone = 0 /\ SubscribeWs(c, w) /\ BusFrame
    \/ \E t \in 1..Len(tasks) : TaskStart(t) /\ BusFrame
    \/ \E t \in 1..Len(tasks) : TaskResume(t) /\ BusFrame
    \/ \E t \in 1..Len(tasks), ok \in BOOLEAN : SendRecorded(t, ok) /\ ShutFrame

SpecOrder == InitSockets /\ [][NextOrder]_vars

\* Re-entrant subscription: handlers that subscribe and unsubscribe while the
\* emit that called them is in progress.
NextReentrant ==
    \/ \E h \in Handlers : Subscribe(h) /\ BusFrame
    \/ \E h \in Handlers : Unsubscribe(h) /\ BusFrame
    \/ \E w \in EventWorkflows : EmitBegin(w) /\ ShutFrame
    \/ EmitCall /\ BusFrame
    \/ \E h \in Handlers : HandlerSubscribe(h) /\ BusFrame
    \/ \E h \in Handlers : HandlerUnsubscribe(h) /\ BusFrame
    \/ HandlerEnd("return") /\ BusFrame
    \/ EmitDispatch /\ BusFrame

SpecReentrant == InitSockets /\ [][NextReentrant]_vars

ArchFrame == UNCHANGED <<storeVars, reqVars, busVars, cmVars, devVars,
                         stepVars, svcVars, shutVars,
                         lateVars>>

\* The plan validator applied to every input plan.
InitValidate ==
    /\ InitStore /\ InitReq /\ InitBus /\ InitCm /\ InitDev
    /\ connection_manager = FALSE
    /\ InitStep /\ InitSvc /\ InitShut /\ InitLate
    /\ \E n \in 1..MaxPlanBatches : plan \in InputPlans(n)
    /\ validated = NoValidation

NextValidate == ValidateAndSplit /\ ArchFrame

SpecValidate == InitValidate /\ [][NextValidate]_vars

LateFrame == UNCHANGED <<storeVars, reqVars, busVars, cmVars, devVars,
                         stepVars, svcVars, shutVars, archVars>>

\* Task lists: every task has up to MaxTasks - 1 distinct dependencies, ids of
\* tasks of the list or the unknown id, listed in ascending order.
DagInputs(n) ==
    [1..n -> {SeqOfSet(d) : d \in {e \in SUBSET ((1..n) \cup {UnknownId}) :
                                       Cardinality(e) <= MaxTasks - 1}}]

InitDagSpec ==
    /\ InitStore /\ InitReq /\ InitBus /\ InitCm /\ InitDev
    /\ connection_manager = FALSE
    /\ InitStep /\ InitSvc /\ InitShut /\ InitArch
    /\ \E n \in 1..MaxTasks : dag_tasks \in DagInputs(n)
    /\ dag_result = "none"
    /\ InitReview /\ InitSub /\ InitCall /\ InitPage

NextDag ==
    /\ ValidateTaskGraph
    /\ UNCHANGED <<reviewVars, subVars, callVars, pageVars>>
    /\ LateFrame

\* The review-fix graph, in manual or automatic mode.
InitReviewSpec ==
    /\ InitStore /\ InitReq /\ InitBus /\ InitCm /\ InitDev
    /\ connection_manager = FALSE
    /\ InitStep /\ InitSvc /\ InitShut /\ InitArch /\ InitDag
    /\ review_node = "reviewer_node"
    /\ review_pass = 0
    /\ max_review_passes \in 1..MaxPasses
    /\ auto_approve \in BOOLEAN
    /\ items_to_implement = FALSE
    /\ state_human_approved = "none"
    /\ review_cycles = 0
    /\ consumed = FALSE
    /\ InitSub /\ InitCall /\ InitPage

NextReview ==
    /\ \/ ReviewerNode
       \/ \E items \in BOOLEAN : EvaluationNode(items)
       \/ \E decision \in {"yes", "no"} : ReviewApprovalNode(decision)
       \/ DeveloperNode
       \/ \E decision \in {"yes", "no"} : EndApprovalNode(decision)
    /\ UNCHANGED <<dagVars, subVars, callVars, pageVars>>
    /\ LateFrame

SpecReview == InitReviewSpec /\ [][NextReview]_vars

SubFrame == UNCHANGED <<storeVars, reqVars, devVars, stepVars, svcVars,
                        shutVars, archVars, dagVars, reviewVars, callVars,
                        pageVars>>

CallFrame == UNCHANGED <<storeVars, reqVars, devVars, stepVars, svcVars,
                         archVars, dagVars, reviewVars, subVars, pageVars>>

\* Paging through every repository of up to MaxRows workflows, started or
\* not, with every page size.
InitPageSpec ==
    /\ InitStore /\ InitReq /\ InitBus /\ InitCm /\ InitDev
    /\ connection_manager = FALSE
    /\ InitStep /\ InitSvc /\ InitShut /\ InitArch
    /\ InitDag /\ InitReview /\ InitSub /\ InitCall
    /\ \E n \in 1..MaxRows : started_at \in [1..n -> {NotStarted} \cup 1..MaxStart]
    /\ page_limit \in 1..MaxLimit
    /\ page_cursor = NoCursor
    /\ page_response = NoPage
    /\ page_seen = <<>>

NextPage ==
    /\ ListWorkflows
    /\ UNCHANGED <<dagVars, reviewVars, subVars, callVars>>
    /\ LateFrame

SpecPage == InitPageSpec /\ [][NextPage]_vars

\* Stream events with persistence set on or off at startup and no in-process
\* subscriber, sockets that connect and subscribe to one workflow before the
\* first event, and the broadcasts sent to them.
NextStreamSend ==
    \/ \E d \in {0, 7} : emitsDone = 0 /\ Configure(d) /\ BusFrame
    \/ \E w \in EventWorkflows, ty \in StreamTypes, b \in BOOLEAN :
         EmitStreamNoted(w, ty, b) /\ CallFrame
    \/ EmitDispatchNoted /\ CallFrame
    \/ \E c \in Conns : Connect(c) /\ BusFrame
    \/ \E c \in Conns, w \in EventWorkflows :
         emitsDone = 0 /\ subs[c] = {} /\ SubscribeWs(c, w) /\ BusFrame
    \/ \E t \in 1..Len(tasks) : TaskStart(t) /\ BusFrame
    \/ \E t \in 1..Len(tasks) : TaskResume(t) /\ BusFrame
    \/ \E t \in 1..Len(tasks), ok \in BOOLEAN : SendNoted(t, ok) /\ CallFrame

SpecStreamSend == InitSockets /\ [][NextStreamSend]_vars

\* Subscriptions that narrow and widen while events are broadcast.
NextUnsub ==
    \/ \E w \in EventWorkflows : EmitStart(w) /\ BusFrame
    \/ EmitDispatch /\ BusFrame
    \/ \E c \in Conns : Connect(c) /\ BusFrame
    \/ \E c \in Conns, w \in EventWorkflows : SubscribeNoted(c, w) /\ SubFrame
    \/ \E c \in Conns, w \in EventWorkflows : UnsubscribeNoted(c, w) /\ SubFrame
    \/ \E c \in Conns : SubscribeAllNoted(c) /\ SubFrame
    \/ \E t \in 1..Len(tasks) : TaskStart(t) /\ BusFrame
    \/ \E t \in 1..Len(tasks) : TaskResume(t) /\ BusFrame
    \/ \E t \in 1..Len(tasks), ok \in BOOLEAN : TaskSendEnd(t, ok) /\ BusFrame

SpecUnsub == InitSockets /\ [][NextUnsub]_vars

\* The socket whose peer reads slowly or not at all.
SlowWs == 1

\* send_json to a socket other than the slow one completes or fails.
SendEndHealthy ==
    \E t \in 1..Len(tasks), ok \in BOOLEAN :
        /\ tasks[t].pc = "sending"
        /\ tasks[t].snap[tasks[t].idx].ws # SlowWs
        /\ TaskSendEnd(t, ok)
        /\ BusFrame

\* send_json to the slow socket completes or fails, if it ever does.
SendEndSlow ==
    \E t \in 1..Len(tasks), ok \in BOOLEAN :
        /\ tasks[t].pc = "sending"
        /\ tasks[t].snap[tasks[t].idx].ws = SlowWs
        /\ TaskSendEnd(t, ok)
        /\ BusFrame

BroadcastStarts == \E t \in 1..Len(tasks) : TaskStart(t) /\ BusFrame
BroadcastResumes == \E t \in 1..Len(tasks) : TaskResume(t) /\ BusFrame

\* Broadcasts to sockets of which one is slow.
NextSlow ==
    \/ \E w \in EventWorkflows : EmitStart(w) /\ BusFrame
    \/ EmitDispatch /\ BusFrame
    \/ \E c \in Conns : Connect(c) /\ BusFrame
    \/ BroadcastStarts
    \/ BroadcastResumes
    \/ SendEndHealthy
    \/ SendEndSlow

\* The event loop runs every task that is ready to run, and a send to a
\* healthy socket completes; nothing makes the slow socket's send complete.
SpecSlow ==
    /\ InitSockets /\ [][NextSlow]_vars
    /\ WF_vars(EmitDispatch /\ BusFrame)
    /\ WF_vars(BroadcastStarts)
    /\ WF_vars(BroadcastResumes)
    /\ WF_vars(SendEndHealthy)


SpecDag == InitDagSpec /\ [][NextDag]_vars

StepFrame == UNCHANGED <<storeVars, reqVars, busVars, cmVars, devVars,
                         svcVars, shutVars, archVars,
                         lateVars>>

\* One command step executed with its fallbacks, over every step.
InitStepSpec ==
    /\ InitStore /\ InitReq /\ InitBus /\ InitCm /\ InitDev
    /\ connection_manager = FALSE
    /\ InitSvc /\ InitShut /\ InitArch /\ InitLate
    /\ InitCommandStep

NextStep == ExecuteStepWithFallbacks /\ StepFrame

SpecStep == InitStepSpec /\ [][NextStep]_vars

SvcFrame == UNCHANGED <<busVars, cmVars, devVars, stepVars, shutVars,
                        archVars,
                         lateVars>>

\* The records a restarted server can find: any status, and the active
\* workflows each on a worktree of its own.
InitRecover ==
    /\ InitReq /\ InitBus /\ InitCm /\ InitDev /\ InitStep /\ InitSvc
    /\ InitShut /\ InitArch /\ InitLate
    /\ connection_manager = FALSE
    /\ wfStatus \in [WorkflowIds -> WorkflowStatus \cup {"none"}]
    /\ wfPath \in [WorkflowIds -> Paths \cup {0}]
    /\ \A w \in WorkflowIds : wfPath[w] = 0 <=> wfStatus[w] = "none"
    /\ \A w1, w2 \in WorkflowIds :
         (w1 # w2 /\ IsActive(wfStatus[w1]) /\ IsActive(wfStatus[w2]))
           => wfPath[w1] # wfPath[w2]
    /\ lastCall = NoCall

NextRecover == RecoverInterruptedWorkflows /\ SvcFrame

SpecRecover == InitRecover /\ [][NextRecover]_vars

\* Workflows queued with start = false, each on a worktree of its own.
InitQueue ==
    /\ InitReq /\ InitBus /\ InitCm /\ InitDev /\ InitStep /\ InitSvc
    /\ InitShut /\ InitArch /\ InitLate
    /\ connection_manager = FALSE
    /\ wfStatus \in [WorkflowIds -> {"none", "pending"}]
    /\ Cardinality({w \in WorkflowIds : wfStatus[w] = "pending"}) <= NumPaths
    /\ wfPath = [w \in WorkflowIds |->
                   IF wfStatus[w] = "none" THEN 0
                   ELSE Cardinality({x \in 1..w : wfStatus[x] = "pending"})]
    /\ lastCall = NoCall

\* The queue: pending workflows are started one by one or in a batch, run,
\* and are cancelled.
NextQueue ==
    \/ \E w \in WorkflowIds : StartPendingRequest(w) /\ SvcFrame
    \/ \E ids \in SUBSET WorkflowIds, all \in BOOLEAN :
         StartBatchBegin(ids, all) /\ SvcFrame
    \/ StartBatchStep /\ SvcFrame
    \/ StartBatchReturn /\ SvcFrame
    \/ \E w \in WorkflowIds : CancelRequest(w) /\ SvcFrame
    \/ \E w \in WorkflowIds : RunTaskOutcome(w, "completed") /\ SvcFrame

SpecQueue == InitQueue /\ [][NextQueue]_vars

\* Run tasks, node by node, and their cancellation.
NextCancel ==
    \/ \E w \in WorkflowIds : StartPendingRequest(w) /\ SvcFrame
    \/ \E w \in WorkflowIds : NodeBegin(w) /\ SvcFrame
    \/ \E w \in WorkflowIds : NodeEnd(w) /\ SvcFrame
    \/ \E w \in WorkflowIds : CancelRequest(w) /\ SvcFrame
    \/ \E w \in WorkflowIds, t \in {"blocked", "completed", "failed"} :
         RunTaskOutcome(w, t) /\ SvcFrame
    \/ \E w \in WorkflowIds : ApproveAtInterrupt(w) /\ UNCHANGED svcVars /\ SvcFrame

SpecCancel == InitQueue /\ [][NextCancel]_vars

(***************************************************************************)
(* Claims                                                                  *)
(***************************************************************************)

\* C1: at most one workflow in a non-terminal status exists per worktree
\* path in every interleaving of start, start-pending, cancel and task
\* outcomes; a start call passes the worktree check only when no active
\* workflow holds the path, a call rejected with WorkflowConflictError has
\* created no record, and terminal workflows do not occupy their worktree.
C1_OneActivePerWorktree ==
    /\ \A p \in Paths : Cardinality(GetByWorktree(p)) <= 1
    /\ \A r \in Requests :
         /\ reqPc[r] = "checked" => GetByWorktree(reqPath[r]) = {}
         /\ reqResult[r] = "WorkflowConflictError" =>
              reqWf[r] = 0 /\ reqPc[r] = "done"

\* A start was rejected on an occupied worktree while the same worktree
\* carries a cancelled workflow and a later, active one.
C1_Witness ==
    \E r \in Requests, w1, w2 \in WorkflowIds :
        /\ reqResult[r] = "WorkflowConflictError"
        /\ wfPath[w1] = reqPath[r] /\ wfPath[w2] = reqPath[r]
        /\ wfStatus[w1] = "cancelled"
        /\ IsActive(wfStatus[w2])

\* C2: once a workflow's stored status is completed, failed, cancelled or
\* aborted, no later SetStatus changes it.
C2_TerminalIsFinal ==
    [][\A w \in WorkflowIds :
          wfStatus[w] \in TerminalStatuses => wfStatus'[w] = wfStatus[w]]_vars

C3_Edges ==
    {<<"pending", "in_progress">>, <<"pending", "cancelled">>,
     <<"in_progress", "blocked">>, <<"in_progress", "completed">>,
     <<"in_progress", "failed">>, <<"in_progress", "cancelled">>,
     <<"blocked", "in_progress">>, <<"blocked", "failed">>,
     <<"blocked", "planning">>, <<"blocked", "cancelled">>,
     <<"failed", "in_progress">>, <<"planning", "in_progress">>}

C4_ConcurrencyCap ==
    /\ CountActive <= MaxConcurrent
    /\ \A r \in Requests :
         /\ reqPc[r] \in {"counted", "checked"} => CountActive < MaxConcurrent
         /\ reqResult[r] = "ConcurrencyLimitError" =>
              reqWf[r] = 0 /\ reqPc[r] = "done"

\* A start was rejected at the cap while a record id was still free.
C4_Witness ==
    \E r \in Requests :
        /\ reqResult[r] = "ConcurrencyLimitError"
        /\ CountActive = MaxConcurrent
        /\ FreeIds # {}


\* C5: for every workflow, the sequence numbers of all its events, those of
\* ordinary events and those of converted stream events, are contiguous,
\* strictly monotonic and start at 1: the i-th event carries sequence i.
C5_SequencesContiguous ==
    \A w \in EventWorkflows :
        \A i \in 1..Len(eventLog[w]) : eventLog[w][i] = i

C7_EmitNeverWaits == ~(emitPc = "in_handler" /\ handlerWorked)

\* C7, amended: emit never waits for a socket: when emit returns, the
\* broadcast it dispatched is a task that has not started (no snapshot, no
\* send), and the earlier tasks are as they were.
C7_EmitReturnsBeforeAnySend ==
    [][(emitPc = "calling" /\ emitPc' = "idle") =>
          /\ Len(tasks') = Len(tasks) + 1
          /\ tasks'[Len(tasks')].pc = "ready"
          /\ tasks'[Len(tasks')].snap = <<>>
          /\ \A t \in 1..Len(tasks) : tasks'[t] = tasks[t]]_vars

\* An emit has returned after calling a subscriber, its broadcast not started.
C7_Witness ==
    /\ emitPc = "idle"
    /\ emitsDone > 0
    /\ calls # <<>>
    /\ Len(tasks) = emitsDone
    /\ tasks[Len(tasks)].pc = "ready"

\* C8: a broadcast for workflow w sends to a registered connection iff its
\* subscription set is empty or contains w: at every step of a broadcast the
\* snapshot is the registered connections, the connection it sends to next
\* matches, and every connection it passed over does not.
C8_BroadcastSendsIffMatching ==
    [][\A t \in 1..Len(tasks) :
          LET old == tasks[t]
              new == tasks'[t]
              starts == old.pc \in {"ready", "acquired"}
                          /\ new.pc \in {"sending", "done"}
              moves == old.pc = "sending"
              snap == IF moves THEN old.snap ELSE Items
              from == IF moves THEN old.idx + 1 ELSE 1
              to == IF new.pc = "sending" THEN new.idx ELSE Len(snap) + 1
          IN (new # old /\ (starts \/ moves)) =>
                /\ new.pc = "sending" => new.snap = snap
                /\ from <= to
                /\ \A j \in from..(to - 1) :
                      ~(snap[j].ids = {} \/ old.wf \in snap[j].ids)
                /\ new.pc = "sending" =>
                      (snap[to].ids = {} \/ old.wf \in snap[to].ids)]_vars

\* A broadcast passed over a connection subscribed only to another workflow
\* and is sending to the next one, which has the empty set.
C8_Witness ==
    \E t \in 1..Len(tasks) :
        /\ tasks[t].pc = "sending"
        /\ tasks[t].idx = 2
        /\ tasks[t].snap[1].ids # {}
        /\ tasks[t].wf \notin tasks[t].snap[1].ids
        /\ tasks[t].snap[2].ids = {}

\* C9: a failed send removes exactly that connection, which is never
\* registered or sent to again; the broadcast goes on to the next matching
\* connection of its snapshot, never back (no retry).
C9_FailedSendRemovesConnection ==
    [][/\ \A i \in 1..Len(connections') : connections'[i] \notin failedWs'
       /\ \A t \in 1..Len(tasks') :
             tasks'[t].pc = "sending" =>
                 tasks'[t].snap[tasks'[t].idx].ws \notin failedWs'
       /\ failedWs' # failedWs =>
             \E t \in 1..Len(tasks) :
                 /\ tasks[t].pc = "sending"
                 /\ LET rec == tasks[t]
                        ws == rec.snap[rec.idx].ws
                        later == {j \in (rec.idx + 1)..Len(rec.snap) :
                                     rec.snap[j].ids = {}
                                       \/ rec.wf \in rec.snap[j].ids}
                    IN /\ failedWs' = failedWs \cup {ws}
                       /\ connections' =
                            SelectSeq(connections, LAMBDA c : c # ws)
                       /\ \A c \in Conns \ {ws} : subs'[c] = subs[c]
                       /\ IF later = {}
                          THEN tasks'[t].pc = "done"
                          ELSE /\ tasks'[t].pc = "sending"
                               /\ tasks'[t].idx \in later
                               /\ \A j \in later : tasks'[t].idx <= j]_vars

\* A send failed and the same broadcast is now sending to the next connection.
C9_Witness ==
    \E t \in 1..Len(tasks) :
        /\ tasks[t].pc = "sending"
        /\ tasks[t].idx > 1
        /\ tasks[t].snap[tasks[t].idx - 1].ws \in failedWs

\* C10: a skip resolution leaves skipped_step_ids containing the blocked step,
\* everything it held before, and every step of the plan with at least one
\* dependency in it.
C10_SkipClosedUnderDependsOn ==
    [][(blocker_resolution = "skip" /\ blocker_resolution' # "skip") =>
          /\ current_blocker \in skipped_step_ids'
          /\ skipped_step_ids \subseteq skipped_step_ids'
          /\ \A s \in Steps :
                depends_on[s] \cap skipped_step_ids' # {} =>
                    s \in skipped_step_ids']_vars

\* Two skip resolutions have happened (two skipped steps with no skipped
\* dependency, each a blocked step), and a dependent was skipped by cascade.
C10_Witness ==
    /\ current_blocker = 0
    /\ \E a, b \in skipped_step_ids :
          /\ a # b
          /\ depends_on[a] \cap skipped_step_ids = {}
          /\ depends_on[b] \cap skipped_step_ids = {}
    /\ \E s \in skipped_step_ids : depends_on[s] \cap skipped_step_ids # {}

\* C11: the blocker_resolution node calls the VCS revert exactly once, with
\* the snapshot in state, when the resolution is abort_revert and a snapshot
\* is present, and never otherwise; abort_revert ends with workflow_status
\* aborted with or without a snapshot.
C11_RevertOnlyOnAbortRevertWithSnapshot ==
    [][(node = "blocker_resolution" /\ blocker_resolution # "none"
          /\ blocker_resolution' = "none")
       => /\ revert_calls' =
               IF /\ blocker_resolution = "abort_revert"
                  /\ git_snapshot_before_batch # 0
               THEN Append(revert_calls, git_snapshot_before_batch)
               ELSE revert_calls
          /\ blocker_resolution = "abort_revert"
               => workflow_status' = "aborted"]_vars

C11_Witness ==
    /\ node = "END"
    /\ workflow_status = "aborted"
    /\ git_snapshot_before_batch = NumSnapshots
    /\ revert_calls = <<NumSnapshots>>

\* C12: when the node has handled abort or abort_revert, workflow_status is
\* aborted, current_blocker and blocker_resolution are cleared and the graph
\* is at END; once aborted, no developer run happens: batch_results and the
\* steps run stay as they are.
C12_AbortEndsTheRun ==
    [][/\ (blocker_resolution \in {"abort", "abort_revert"}
             /\ blocker_resolution' # blocker_resolution)
          => /\ workflow_status' = "aborted"
             /\ current_blocker' = 0
             /\ blocker_resolution' = "none"
             /\ node' = "END"
       /\ workflow_status = "aborted"
          => /\ node' = "END"
             /\ batch_results' = batch_results
             /\ run_steps' = run_steps]_vars

C12_Witness ==
    /\ workflow_status = "aborted"
    /\ node = "END"
    /\ current_blocker = 0
    /\ blocker_resolution = "none"
    /\ current_batch_index = 1
    /\ Len(batch_results) = 2
    /\ batch_results[2].status = "blocked"
    /\ batch_results[2].batch_number = 2
    /\ current_batch_index + 1 < NumBatches

\* C13: whenever a batch has blocked, the state's git_snapshot_before_batch
\* holds the snapshot the executor took before the first step of the batch.
C13_SnapshotInStateWhenBlocked ==
    developer_status = "BLOCKED" => git_snapshot_before_batch # 0

\* The last BatchResult in state.
LastResult == batch_results[Len(batch_results)]

\* A developer run that executed a batch: it appended a BatchResult.
BatchRun == Len(batch_results') = Len(batch_results) + 1

\* C14: the developer run that follows a fix instruction (or an empty one)
\* resumes at the blocked step: the steps completed before the blocker are
\* not executed again and stay in the completed steps, and the blocked step
\* is pre-validated again.
C14_FixResumesAtBlockedStep ==
    [][(/\ BatchRun
        /\ batch_results # <<>>
        /\ LastResult.status = "blocked"
        /\ LastResult.batch_number = current_batch_index + 1
        /\ LastResult.blocker \notin skipped_step_ids)
       => /\ run_steps' \cap LastResult.completed = {}
          /\ LastResult.blocker \in run_steps'
          /\ LastResult.completed
               \subseteq batch_results'[Len(batch_results')].completed]_vars

\* C15: after a skip, the continuation of the batch executes no skipped step
\* (the blocked step and its dependents are recorded as skipped), executes the
\* steps that do not depend on it, and so is not blocked by a skipped step.
C15_SkipContinuationLeavesSkippedStepsOut ==
    [][BatchRun
       => /\ run_steps' \cap skipped_step_ids = {}
          /\ current_blocker' \notin skipped_step_ids]_vars

\* C16: a developer run that completes a batch sets developer_status to
\* ALL_DONE when that batch was the last one of the plan, and to
\* BATCH_COMPLETE only when a batch remains.
C16_AllDoneOnLastBatch ==
    [][(BatchRun /\ batch_results'[Len(batch_results')].status = "complete")
       => developer_status' =
            IF current_batch_index + 1 = NumBatches
            THEN "ALL_DONE" ELSE "BATCH_COMPLETE"]_vars

\* C17: under standard trust with batch checkpoints enabled, when no step has
\* blocked and every checkpoint was approved, the run reaches the reviewer
\* with N - 1 BatchApprovals and N complete BatchResults, N the number of
\* batches of the plan.
C17_ApprovalsOneLessThanBatches ==
    (/\ node = "reviewer"
     /\ review_iteration = 0
     /\ trust_level = "standard"
     /\ batch_checkpoint_enabled
     /\ blockers = 0)
    => /\ Len(batch_approvals) = NumBatches - 1
       /\ Len(batch_results) = NumBatches
       /\ \A i \in 1..Len(batch_results) : batch_results[i].status = "complete"

\* C18: a rejected batch checkpoint appends a BatchApproval with approved
\* false and routes to END; from then on nothing runs: no BatchResult and no
\* BatchApproval is added. Rejecting the second checkpoint of an unblocked
\* run leaves the approvals (true, false) and two BatchResults.
C18_RejectedCheckpointEndsTheRun ==
    [][/\ (/\ Len(batch_approvals') = Len(batch_approvals) + 1
           /\ ~batch_approvals'[Len(batch_approvals')].approved)
          => /\ node = "batch_approval"
             /\ node' = "END"
             /\ SubSeq(batch_approvals', 1, Len(batch_approvals))
                  = batch_approvals
       /\ (batch_approvals # <<>>
             /\ ~batch_approvals[Len(batch_approvals)].approved)
          => /\ node = "END"
             /\ node' = "END"
             /\ batch_results' = batch_results
             /\ batch_approvals' = batch_approvals
             /\ run_steps' = run_steps
       /\ (/\ Len(batch_approvals') = 2
           /\ ~batch_approvals'[2].approved
           /\ blockers' = 0)
          => /\ batch_approvals'[1].approved
             /\ Len(batch_results') = 2]_vars

C18_Witness ==
    /\ node = "END"
    /\ NumBatches = 3
    /\ Len(batch_approvals) = 2
    /\ batch_approvals[1].approved
    /\ ~batch_approvals[2].approved
    /\ Len(batch_results) = 2
    /\ current_batch_index = 2

\* C19: route_after_developer returns reviewer for ALL_DONE, blocker_resolution
\* for BLOCKED, developer for EXECUTING; for BATCH_COMPLETE it returns
\* developer when batch checkpoints are disabled or when trust is autonomous
\* and the next batch is low-risk, and batch_approval in every other case.
C19_RouteAfterDeveloperTable ==
    node # "after_developer"
    => node =
         CASE developer_status = "ALL_DONE" -> "reviewer"
           [] developer_status = "BLOCKED" -> "blocker_resolution"
           [] developer_status = "EXECUTING" -> "developer"
           [] developer_status = "BATCH_COMPLETE" ->
                IF \/ ~batch_checkpoint_enabled
                   \/ /\ trust_level = "autonomous"
                      /\ \E n \in 1..NumBatches :
                           /\ n = current_batch_index + 1
                           /\ risk_summary[n] = "low"
                THEN "developer"
                ELSE "batch_approval"

C19_Witness ==
    /\ node = "batch_approval"
    /\ developer_status = "BATCH_COMPLETE"
    /\ trust_level = "autonomous"
    /\ batch_checkpoint_enabled
    /\ current_batch_index + 1 <= NumBatches
    /\ risk_summary[current_batch_index + 1] = "medium"

\* C20: current_batch_index never exceeds len(plan.batches), also after the
\* reviewer rejected and the plan was replaced by a fix plan of one batch.
C20_BatchIndexWithinPlan == current_batch_index <= NumBatches

\* C21: when the step of a single-batch plan has blocked once and succeeded
\* on the retry after a fix instruction, the final state has current_blocker
\* and blocker_resolution cleared, no skipped step, and batch_results holds
\* one BatchResult, which is complete.
C21_FixRetryLeavesOneCompleteResult ==
    (/\ NumBatches = 1
     /\ review_iteration = 0
     /\ blockers = 1
     /\ skipped_step_ids = {}
     /\ workflow_status = "running"
     /\ current_batch_index = 1)
    => /\ current_blocker = 0
       /\ blocker_resolution = "none"
       /\ Len(batch_results) = 1
       /\ batch_results[1].status = "complete"

\* C22: a command step is recorded as completed only if the command it
\* stopped at passed validate_command_result (the step's expect_exit_code
\* and, when set, its expected_output_pattern on the ANSI-stripped stdout)
\* and every command tried before it did not; it fails only when no command
\* of the step passes.
C22_CompletedOnlyIfCommandValidates ==
    step_result # NoResult
    => LET passes(i) ==
               /\ ~step.commands[i].empty
               /\ validate_command_result(step.commands[i].exit_code,
                                          step.commands[i].stdout, step)
       IN IF step_result.status = "completed"
          THEN /\ passes(step_result.executed_command)
               /\ \A j \in 1..(step_result.executed_command - 1) : ~passes(j)
          ELSE \A j \in 1..Len(step.commands) : ~passes(j)

\* The events of a sequence that are about workflow w.
EventsOf(w, events) == SelectSeq(events, LAMBDA e : e.workflow_id = w)

\* C23: startup recovery changes exactly the in_progress workflows: each
\* becomes failed with the restart failure_reason and gets one
\* WORKFLOW_FAILED event with recoverable true; each blocked workflow stays
\* blocked and gets one APPROVAL_REQUIRED event; every other workflow keeps
\* its status and failure_reason and gets no event.
C23_RecoveryTouchesOnlyInterrupted ==
    [][\A w \in WorkflowIds :
         IF wfStatus[w] = "in_progress"
         THEN /\ wfStatus'[w] = "failed"
              /\ failure_reason'[w] = RestartReason
              /\ EventsOf(w, service_events') =
                   <<[workflow_id |-> w, event_type |-> "WORKFLOW_FAILED",
                      recoverable |-> TRUE]>>
         ELSE /\ wfStatus'[w] = wfStatus[w]
              /\ failure_reason'[w] = failure_reason[w]
              /\ IF wfStatus[w] = "blocked"
                 THEN /\ Len(EventsOf(w, service_events')) = 1
                      /\ EventsOf(w, service_events')[1].event_type
                           = "APPROVAL_REQUIRED"
                 ELSE EventsOf(w, service_events') = <<>>]_vars

C23_Witness ==
    \E w1, w2, w3 \in WorkflowIds :
        /\ wfStatus[w1] = "failed" /\ failure_reason[w1] = RestartReason
        /\ EventsOf(w1, service_events) # <<>>
        /\ wfStatus[w2] = "blocked"
        /\ EventsOf(w2, service_events) # <<>>
        /\ wfStatus[w3] = "completed"
        /\ EventsOf(w3, service_events) = <<>>
        /\ Len(service_events) = 2

\* C24: only a pending workflow is started and each workflow is launched at
\* most once: StartPending on a record that is not pending answers 409 (404
\* when there is no record) and changes neither its status nor the tasks;
\* StartBatch reports an id it started under started and any other id under
\* errors, never both.
C24_OnlyPendingIsStartedOnce ==
    [][/\ \A w \in WorkflowIds :
            /\ launches'[w] <= 1
            /\ launches'[w] > launches[w]
                 => wfStatus[w] = "pending" /\ wfStatus'[w] = "in_progress"
       /\ start_response' # start_response
            => LET w == start_response'.workflow_id
               IN IF wfStatus[w] = "pending"
                  THEN start_response'.status_code = 200
                  ELSE /\ start_response'.status_code =
                            IF wfStatus[w] = "none" THEN 404 ELSE 409
                       /\ UNCHANGED <<wfStatus, activeTasks, launches>>
       /\ batch_started' \cap batch_errors' = {}
       /\ \A w \in batch_started' \ batch_started :
            wfStatus[w] = "pending" /\ launches'[w] = launches[w] + 1
       /\ \A w \in batch_errors' \ batch_errors :
            wfStatus[w] # "pending" /\ launches'[w] = launches[w]]_vars

C24_Witness ==
    /\ batch_pc = "done"
    /\ batch_started # {}
    /\ \E w \in batch_errors : wfStatus[w] = "in_progress" /\ launches[w] = 1
    /\ start_response.status_code = 409

Suppressed(call) ==
    call.type = "claude_tool_result" /\ ~call.stream_tool_results

\* C26: with trace retention 0, an emit_stream call converts nothing and
\* calls no in-process subscriber, and unless the event is a suppressed tool
\* result it dispatches the stream broadcast to the socket connections.
C26_StreamBypassesLogButReachesSockets ==
    [][(emitsDone' = emitsDone + 1 /\ trace_retention_days = 0)
       => /\ eventLog' = eventLog
          /\ sequence_counter' = sequence_counter
          /\ calls' = calls
          /\ emitPc' = "idle"
          /\ ~Suppressed(stream_call')
             => /\ Len(tasks') = Len(tasks) + 1
                /\ tasks'[Len(tasks')].kind = "stream"
                /\ Len(tasks') \in broadcast_tasks'
                /\ ~propagated']_vars


\* C27: at the step in which cleanup returns, every broadcast task created so
\* far has finished, and no task that is still pending leaves the tracking
\* set.
C27_CleanupReturnsAfterAllBroadcasts ==
    [][(cleanup_pc # "returned" /\ cleanup_pc' = "returned")
       => /\ \A t \in 1..Len(tasks') : tasks'[t].pc = "done"
          /\ \A t \in broadcast_tasks \ broadcast_tasks' :
                tasks'[t].pc = "done"]_vars


\* C28: every socket receives the broadcasts in the order of their emits:
\* the log of the sends to a socket is increasing in the emit number
\* (broadcast task k is the one dispatched by the k-th emit).
C28_SendsFollowEmitOrder ==
    \A c \in Conns : \A i, j \in 1..Len(send_log[c]) :
        i < j => send_log[c][i] < send_log[c][j]

\* Two events were emitted before either broadcast had started, and one
\* socket has been sent both, while another socket is connected as well.
C28_Witness ==
    \E c \in Conns :
        /\ Len(send_log[c]) = 2
        /\ Len(connections) = 2
        /\ \E d \in Conns : d # c /\ send_log[d] # <<>>


\* Number of times x occurs in seq.
CountIn(seq, x) == Cardinality({i \in 1..Len(seq) : seq[i] = x})

\* C29: when an emit has returned, every handler that was registered when it
\* began has been called exactly once for the event, whatever the handlers
\* subscribed or unsubscribed during the emit.
C29_EmitIteratesSnapshot ==
    (emitPc = "idle" /\ emitsDone > 0)
    => \A i \in 1..Len(subscribers_at_start) :
          CountIn(calls, subscribers_at_start[i]) = 1


\* C30: every batch of the validated plan is within the size limit of its
\* own risk_summary: at most 5 steps if low, at most 3 if medium, exactly 1
\* if high.
C30_BatchesWithinRiskLimits ==
    validated # NoValidation
    => \A i \in 1..Len(validated.batches) :
          LET b == validated.batches[i]
          IN /\ b.risk_summary = "low" => Len(b.steps) <= 5
             /\ b.risk_summary = "medium" => Len(b.steps) <= 3
             /\ b.risk_summary = "high" => Len(b.steps) = 1


\* C31: in the validated plan every high-risk step is alone in its batch,
\* whatever risk_summary the input batch declared (the validator keeps the
\* steps and their order, so a high-risk step of the input is a high-risk
\* step of the output).
C31_HighRiskStepIsolated ==
    validated # NoValidation
    => \A i \in 1..Len(validated.batches) :
          (\E k \in 1..Len(validated.batches[i].steps) :
                validated.batches[i].steps[k] = "high")
          => Len(validated.batches[i].steps) = 1


\* Every dependency of the task list names a task of the list.
RefsExist(task_list) ==
    \A t \in DOMAIN task_list : \A i \in 1..Len(task_list[t]) :
        task_list[t][i] \in DOMAIN task_list

\* The dependency graph has no cycle: every non-empty set of tasks has a
\* member none of whose dependencies is in the set.
DagAcyclic(task_list) ==
    \A c \in (SUBSET DOMAIN task_list) \ {{}} :
        \E t \in c : \A i \in 1..Len(task_list[t]) : task_list[t][i] \notin c

C34_ApprovalClearedAfterUse == consumed => state_human_approved = "none"


\* Step s depends on step t, directly or through other steps.
RECURSIVE DependsPath(_, _)
DependsPath(s, t) ==
    \/ t \in depends_on[s]
    \/ \E d \in depends_on[s] : DependsPath(d, t)

\* C35: a skip resolution adds to skipped_step_ids exactly the blocked step
\* and the steps with a dependency path to it, and removes nothing.
C35_SkipAddsExactlyDependents ==
    [][(blocker_resolution = "skip" /\ blocker_resolution' # "skip") =>
          skipped_step_ids' =
              skipped_step_ids \cup {current_blocker}
                \cup {s \in PlanSteps : DependsPath(s, current_blocker)}]_vars

\* After a skip resolution: a step skipped only through an intermediate step
\* of the blocked one.
C35_Witness ==
    /\ current_blocker = 0
    /\ blocker_resolution = "none"
    /\ \E a, s \in skipped_step_ids :
          /\ depends_on[a] \cap skipped_step_ids = {}
          /\ a \notin depends_on[s]
          /\ DependsPath(s, a)


\* C36: no developer run pre-validates or executes a step whose id is in
\* skipped_step_ids; the step that blocked and was resolved with skip is not
\* attempted again when its batch is re-entered.
C36_SkippedStepNeverAttempted ==
    [][BatchRun => run_steps' \cap skipped_step_ids = {}]_vars


\* C37: a broadcast never sends an event of workflow w to a socket that has
\* unsubscribed from w and has neither subscribed to w again nor called
\* subscribe_all since, also when the unsubscribe left its set empty.
C37_NoEventAfterUnsubscribe ==
    \A t \in 1..Len(tasks) :
        tasks[t].pc = "sending" =>
            tasks[t].wf \notin unsubscribed[tasks[t].snap[tasks[t].idx].ws]


\* C38: a socket whose send is slow or never completes does not hold up the
\* others: every broadcast that has been dispatched gets to run its sends,
\* that is, a broadcast never stays queued behind the send to the slow socket.
C38_SlowSendBlocksNobody ==
    \A t \in 1..MaxEmits :
        (t <= Len(tasks) /\ tasks[t].pc = "waiting")
            ~> (t <= Len(tasks) /\ tasks[t].pc # "waiting")


C40_PagingVisitsEachOnce ==
    /\ page_response.has_more =>
          /\ page_response.cursor # NoCursor
          /\ page_response.cursor =
               EncodeCursor(page_response.workflows[Len(page_response.workflows)])
    /\ (page_response # NoPage /\ ~page_response.has_more) =>
          /\ Len(page_seen) = Cardinality(DOMAIN started_at)
          /\ \A i \in DOMAIN started_at :
                \E k \in 1..Len(page_seen) : page_seen[k] = i

====
